---- MODULE Spec2Model ----
(***************************************************************************)
(* The local asset cache-and-store subsystem of SADA-AI-Photo-Generator:   *)
(* ImageCacheService (remote image cache) and ImageStorageService          *)
(* (training images and generated photos), both on top of AsyncStorage     *)
(* (one key -> JSON value namespace) and expo-file-system (paths -> files).*)
(*                                                                         *)
(* Strings that the code inspects (keys, urls) are sequences of one-       *)
(* character strings, so that startsWith, btoa and replace are computed.   *)
(* Times are milliseconds since the start of the run; only differences     *)
(* and comparisons of Date.now() values are used by the code.              *)
(***************************************************************************)
EXTENDS Integers, Sequences, FiniteSets, TLC

VARIABLES storage, files, now, call, last

vars == <<storage, files, now, call, last>>

(***************************************************************************)
(* Bounds of the model.                                                    *)
(***************************************************************************)
\* Tick may advance the clock by MAX_CACHE_AGE at most this many times
MaxBigTicks == 1
\* ... and by one millisecond at most this many times
MaxSmallTicks == 1

(***************************************************************************)
(* Generic helpers.                                                        *)
(***************************************************************************)
Max(a, b) == IF a >= b THEN a ELSE b

StartsWith(s, p) == Len(s) >= Len(p) /\ SubSeq(s, 1, Len(p)) = p

RECURSIVE Perms(_)
Perms(S) ==
  IF S = {} THEN {<<>>}
  ELSE UNION {{<<x>> \o p : p \in Perms(S \ {x})} : x \in S}

Range(s) == {s[i] : i \in DOMAIN s}

\* f without the key k
Without(f, k) == [x \in (DOMAIN f) \ {k} |-> f[x]]

\* f with k set to v (k may be new)
With(f, k, v) == [x \in (DOMAIN f) \cup {k} |-> IF x = k THEN v ELSE f[x]]

(***************************************************************************)
(* JavaScript numbers as far as the cache uses them: integers, NaN (the    *)
(* sum of a number and undefined) and, once written with JSON.stringify    *)
(* and read back, null in the place of NaN.                                *)
(***************************************************************************)
NaN == -1
JsonNull == -2

IsNum(x) == x >= 0

\* a + b where a or b may be NaN, and null counts as 0
JsAdd(a, b) ==
  IF a = NaN \/ b = NaN THEN NaN
  ELSE (IF a = JsonNull THEN 0 ELSE a) + (IF b = JsonNull THEN 0 ELSE b)

\* Math.max(0, a - b) for a possibly null, b a number
JsSubClamp(a, b) == Max(0, (IF a = JsonNull THEN 0 ELSE a) - b)

\* a > b, false when a is NaN, null counting as 0
JsGreater(a, b) == a # NaN /\ (IF a = JsonNull THEN 0 ELSE a) > b

\* a <= b, false when a is NaN
JsLessEq(a, b) == a # NaN /\ (IF a = JsonNull THEN 0 ELSE a) <= b

\* JSON.stringify followed by JSON.parse of a number field
JsonNumber(a) == IF a = NaN THEN JsonNull ELSE a

(***************************************************************************)
(* ImageCacheService: constants and key derivation.                        *)
(***************************************************************************)
CACHE_PREFIX == <<"i","m","a","g","e","_","c","a","c","h","e","_">>
METADATA_KEY == <<"i","m","a","g","e","_","c","a","c","h","e","_",
                  "m","e","t","a","d","a","t","a">>
MiB == 1048576
MAX_CACHE_SIZE == 100 * MiB
MAX_CACHE_AGE == 604800000
CACHE_DIRECTORY == "images/"

\* targetSize = MAX_CACHE_SIZE * 0.8
TargetSize == (MAX_CACHE_SIZE * 8) \div 10

\* character codes of the characters the modelled urls use
Ord == [c \in {"a", "b", "i", "j", "k", ".", "/", "?"} |->
          CASE c = "a" -> 97 [] c = "b" -> 98 [] c = "i" -> 105
            [] c = "j" -> 106 [] c = "k" -> 107 [] c = "." -> 46
            [] c = "/" -> 47 [] c = "?" -> 63]

B64 == <<"A","B","C","D","E","F","G","H","I","J","K","L","M","N","O","P",
         "Q","R","S","T","U","V","W","X","Y","Z","a","b","c","d","e","f",
         "g","h","i","j","k","l","m","n","o","p","q","r","s","t","u","v",
         "w","x","y","z","0","1","2","3","4","5","6","7","8","9","+","/">>

\* btoa: three bytes to four characters, "=" padding at the end
RECURSIVE btoa(_)
btoa(s) ==
  IF Len(s) = 0 THEN <<>>
  ELSE LET b1 == Ord[s[1]]
           b2 == IF Len(s) >= 2 THEN Ord[s[2]] ELSE 0
           b3 == IF Len(s) >= 3 THEN Ord[s[3]] ELSE 0
           c1 == B64[(b1 \div 4) + 1]
           c2 == B64[((b1 % 4) * 16 + (b2 \div 16)) + 1]
           c3 == B64[((b2 % 16) * 4 + (b3 \div 64)) + 1]
           c4 == B64[(b3 % 64) + 1]
       IN  IF Len(s) = 1 THEN <<c1, c2, "=", "=">>
           ELSE IF Len(s) = 2 THEN <<c1, c2, c3, "=">>
           ELSE <<c1, c2, c3, c4>> \o btoa(SubSeq(s, 4, Len(s)))

NotStripped(c) == c \notin {"/", "+", "="}

\* CACHE_PREFIX + btoa(url).replace(/[/+=]/g, '')
CacheKeyOf(url) == CACHE_PREFIX \o SelectSeq(btoa(url), NotStripped)

\* `${CACHE_DIRECTORY}${cacheKey}.jpg`
getCacheLocalPath(cacheKey) == [dir |-> CACHE_DIRECTORY, name |-> cacheKey]

\* the urls handed to the cache: "a.b/i" and "a.b/i?" differ only in a
\* trailing "?", "a.b/j" is unrelated
UrlI == <<"a", ".", "b", "/", "i">>
UrlIQ == <<"a", ".", "b", "/", "i", "?">>
UrlJ == <<"a", ".", "b", "/", "j">>
Urls == {UrlI, UrlIQ, UrlJ}

\* getCacheKey, computed once for each of the urls
CacheKeyTable == [u \in Urls |-> CacheKeyOf(u)]
getCacheKey(url) == CacheKeyTable[url]

\* the files of the device: path -> file, a path being a directory and a name
NullPath == [dir |-> "", name |-> <<>>]

FILE_SCHEME == <<"f","i","l","e",":","/","/">>
DATA_SCHEME == <<"d","a","t","a",":">>

\* A source uri: its leading characters (text) and, for a file:// uri, the
\* path it names.  Every path of the device is a file:// uri.
PathUri(path) == [text |-> FILE_SCHEME, path |-> path]
NoUri == [text |-> <<>>, path |-> NullPath]
RemoteSource(url) == [text |-> url, path |-> NullPath]

\* FileSystem.getInfoAsync(path).exists
Exists(fs, path) == path \in DOMAIN fs

\* `(fileInfo.exists && !fileInfo.isDirectory) ? size || 0 : 0`
FileSize(fs, path) == IF Exists(fs, path) THEN fs[path].size ELSE 0

\* FileSystem.deleteAsync(path, { idempotent: true })
DeleteFile(fs, path) == Without(fs, path)

\* a file fully written at path from source src
WriteFile(fs, path, size, src) ==
  With(fs, path, [size |-> size, partial |-> FALSE, src |-> src])

(***************************************************************************)
(* ImageCacheService: operations, as functions of the world                *)
(* w = [storage, files] and of the clock t (Date.now()).                   *)
(***************************************************************************)
World(st, fs) == [storage |-> st, files |-> fs]

\* the sum of the size fields of the entries under the keys S
RECURSIVE SumOfSizes(_, _)
SumOfSizes(st, S) ==
  IF S = {} THEN 0
  ELSE LET k == CHOOSE x \in S : TRUE
       IN  st[k].size + SumOfSizes(st, S \ {k})

\* the stored counters are those of the entries of the ledger
CountersAreExact(st) ==
  LET m == IF METADATA_KEY \in DOMAIN st THEN st[METADATA_KEY]
           ELSE [t |-> "meta", totalSize |-> 0, imageCount |-> 0]
      S == {k \in DOMAIN st : st[k].t = "entry"}
  IN  /\ m.imageCount = Cardinality(S)
      /\ m.totalSize = SumOfSizes(st, S)

\* (lastCleanup is written and never read; the model leaves it out)
getCacheMetadata(st, t) ==
  IF METADATA_KEY \in DOMAIN st THEN st[METADATA_KEY]
  ELSE [t |-> "meta", totalSize |-> 0, imageCount |-> 0]

\* AsyncStorage.setItem(METADATA_KEY, JSON.stringify(metadata))
updateCacheMetadata(st, m) ==
  With(st, METADATA_KEY,
       [t |-> "meta", totalSize |-> JsonNumber(m.totalSize),
        imageCount |-> m.imageCount])

\* (variant) the counters are left as they are
NotDecremented(m, size) == m

\* metadata.totalSize = Math.max(0, metadata.totalSize - size);
\* metadata.imageCount = Math.max(0, metadata.imageCount - 1)
Decremented(m, size) ==
  [m EXCEPT !.totalSize = JsSubClamp(@, size), !.imageCount = Max(0, @ - 1)]

\* removeFromCache once cachedData was read under cacheKey
RemoveEntry(w, cacheKey, cachedData, t) ==
  World(updateCacheMetadata(
          Without(w.storage, cacheKey),
          Decremented(getCacheMetadata(Without(w.storage, cacheKey), t),
                      cachedData.size)),
        DeleteFile(w.files, cachedData.localPath))

removeFromCache(w, url, t) ==
  IF getCacheKey(url) \notin DOMAIN w.storage THEN w
  ELSE RemoveEntry(w, getCacheKey(url), w.storage[getCacheKey(url)], t)

\* (variant) an entry counts as expired from the age of MAX_CACHE_AGE on
isCachedExpiresAtMaxAge(w, url, t) ==
  IF getCacheKey(url) \notin DOMAIN w.storage THEN [w |-> w, ret |-> FALSE]
  ELSE IF t - w.storage[getCacheKey(url)].timestamp >= MAX_CACHE_AGE
          \/ ~Exists(w.files, w.storage[getCacheKey(url)].localPath)
  THEN [w |-> removeFromCache(w, url, t), ret |-> FALSE]
  ELSE [w |-> w, ret |-> TRUE]

isCached(w, url, t) ==
  IF getCacheKey(url) \notin DOMAIN w.storage THEN [w |-> w, ret |-> FALSE]
  ELSE IF t - w.storage[getCacheKey(url)].timestamp > MAX_CACHE_AGE
  THEN [w |-> removeFromCache(w, url, t), ret |-> FALSE]
  ELSE IF ~Exists(w.files, w.storage[getCacheKey(url)].localPath)
  THEN [w |-> removeFromCache(w, url, t), ret |-> FALSE]
  ELSE [w |-> w, ret |-> TRUE]

\* getCachedUri once isCached has returned r
CachedUriAfter(r, url) ==
  IF ~r.ret THEN [w |-> r.w, ret |-> NullPath]
  ELSE IF getCacheKey(url) \in DOMAIN r.w.storage
  THEN [w |-> r.w, ret |-> r.w.storage[getCacheKey(url)].localPath]
  ELSE [w |-> r.w, ret |-> NullPath]

getCachedUri(w, url, t) == CachedUriAfter(isCached(w, url, t), url)

\* the ledger keys cleanupCache selects: allKeys.filter(startsWith(CACHE_PREFIX))
CacheKeys(st) == {k \in DOMAIN st : StartsWith(k, CACHE_PREFIX)}

\* the part of the ledger under those keys
CacheLedger(st) == [k \in CacheKeys(st) |-> st[k]]

\* img.timestamp and img.size of a parsed value; a value that is no
\* CachedImage has neither field, and undefined in arithmetic is NaN
TimestampOf(v) == IF v.t = "entry" THEN v.timestamp ELSE NaN
SizeOf(v) == IF v.t = "entry" THEN v.size ELSE NaN

\* cachedImages.reduce((total, img) => total + img.size, 0) over the keys in order
RECURSIVE SumSizes(_, _)
SumSizes(st, order) ==
  IF order = <<>> THEN 0
  ELSE JsAdd(SizeOf(st[Head(order)]), SumSizes(st, Tail(order)))

\* The orders cachedImages.sort((a, b) => a.timestamp - b.timestamp) can leave:
\* ascending timestamps, equal ones in the order getAllKeys listed them (which
\* AsyncStorage does not define); with an item whose timestamp is undefined
\* the comparator returns NaN and the order is implementation-defined.
SortedOrdersOf(st, ks) ==
  IF \E k \in ks : TimestampOf(st[k]) = NaN THEN Perms(ks)
  ELSE {p \in Perms(ks) :
          \A i, j \in DOMAIN p :
            i < j => TimestampOf(st[p[i]]) <= TimestampOf(st[p[j]])}

\* a stored string JSON.parse throws on, and the empty string
Corrupt == [t |-> "corrupt"]
Empty == [t |-> "empty"]

\* the keys cleanupCache pushes to cachedImages: the value is a string that
\* is not empty (if (cachedDataStr)) and that parses
ListedKeys(st) == {k \in CacheKeys(st) : st[k].t \notin {"corrupt", "empty"}}

\* (variant) the listing removes nothing
KeepCorrupted(st) == st

\* the ledger after the listing: a key whose value made JSON.parse throw is
\* removed in the catch
DropCorrupted(st) ==
  [k \in {x \in DOMAIN st : ~(StartsWith(x, CACHE_PREFIX) /\ st[x].t = "corrupt")}
     |-> st[k]]

SortedOrders(st) == SortedOrdersOf(st, ListedKeys(st))

\* the eviction loop over cachedImages from index i on; cur is currentSize.
\* undefDel is what deleteAsync(undefined) does: "throws" or "noop".
RECURSIVE EvictLoop(_, _, _, _, _, _)
EvictLoop(w, st0, order, i, cur, undefDel) ==
  IF i > Len(order) THEN [w |-> w, cur |-> cur, evicted |-> <<>>]
  ELSE IF JsLessEq(cur, TargetSize) THEN [w |-> w, cur |-> cur, evicted |-> <<>>]
  ELSE IF st0[order[i]].t # "entry" /\ undefDel = "throws"
  THEN EvictLoop(w, st0, order, i + 1, cur, undefDel)
  ELSE [EvictLoop(World(Without(w.storage, order[i]),
                        IF st0[order[i]].t = "entry"
                        THEN DeleteFile(w.files, st0[order[i]].localPath)
                        ELSE w.files),
                  st0, order, i + 1,
                  IF cur = NaN \/ SizeOf(st0[order[i]]) = NaN THEN NaN
                  ELSE cur - SizeOf(st0[order[i]]),
                  undefDel)
          EXCEPT !.evicted = <<order[i]>> \o @]

\* the metadata cleanupCache builds from remainingImages
RemainingMetadata(st0, remainingImages) ==
  [t |-> "meta",
   totalSize |-> SumSizes(st0, remainingImages),
   imageCount |-> Len(remainingImages)]

\* cleanupCache once the loop has ended with r:
\* remainingImages = cachedImages.filter(img => currentSize > targetSize ? false : true)
CleanupAfterLoop(st0, order, r) ==
  [w |-> World(updateCacheMetadata(
                 r.w.storage,
                 RemainingMetadata(st0, IF JsGreater(r.cur, TargetSize)
                                        THEN <<>> ELSE order)),
               r.w.files),
   evicted |-> r.evicted, before |-> CacheLedger(st0)]

\* the loop and the metadata, from the ledger st1 the listing left
CleanupListed(st1, fs, order, undefDel) ==
  CleanupAfterLoop(st1, order,
                   EvictLoop(World(st1, fs), st1, order, 1,
                             SumSizes(st1, order), undefDel))

cleanupCache(w, t, order, undefDel) ==
  [CleanupListed(DropCorrupted(w.storage), w.files, order, undefDel)
     EXCEPT !.before = CacheLedger(w.storage)]

\* what FileSystem.downloadAsync did: "ok" (status 200, size bytes written),
\* "status" (another status; the body is written all the same), "throw"
Downloads(sizes) ==
  {[k |-> "ok", size |-> s] : s \in sizes}
    \cup {[k |-> "status", size |-> 0], [k |-> "throw", size |-> 0]}

\* (variant) the status of the download is not looked at
StatusIgnored(dl) == TRUE

\* downloadResult.status !== 200 makes cacheImage throw
StatusAccepted(dl) == dl.k = "ok"

\* the CachedImage cacheImage writes for url once the file is on disk
CachedImageOf(fs, url, t) ==
  [t |-> "entry",
   localPath |-> getCacheLocalPath(getCacheKey(url)),
   timestamp |-> t,
   size |-> FileSize(fs, getCacheLocalPath(getCacheKey(url))),
   originalUrl |-> url]

\* metadata.totalSize += fileSize; metadata.imageCount += 1
Incremented(m, fileSize) ==
  [m EXCEPT !.totalSize = JsAdd(@, fileSize), !.imageCount = @ + 1]

\* what cacheImage returns with path ret, c being the result of cleanupCache
CacheResult(w, ret, downloads) ==
  [w |-> w, ret |-> ret, downloads |-> downloads, cleaned |-> FALSE,
   evicted |-> <<>>, before |-> <<>>]

CacheResultCleaned(c, ret) ==
  [w |-> c.w, ret |-> ret, downloads |-> 1, cleaned |-> TRUE,
   evicted |-> c.evicted, before |-> c.before]

\* (variant) cleanupCache runs after every insert
CacheImageAlwaysCleans(w2, metadata, localPath, t, order, undefDel) ==
  CacheResultCleaned(
    cleanupCache(World(updateCacheMetadata(w2.storage, metadata), w2.files),
                 t, order, undefDel),
    localPath)

\* cacheImage from the update of the metadata on: w2 holds the file and the
\* entry, metadata the incremented counters
CacheImageCounted(w2, metadata, localPath, t, order, undefDel) ==
  IF JsGreater(metadata.totalSize, MAX_CACHE_SIZE)
  THEN CacheResultCleaned(
         cleanupCache(World(updateCacheMetadata(w2.storage, metadata), w2.files),
                      t, order, undefDel),
         localPath)
  ELSE CacheResult(World(updateCacheMetadata(w2.storage, metadata), w2.files),
                   localPath, 1)

\* cacheImage from the write of the entry on: w1 holds the downloaded file
CacheImageStored(w1, url, t, order, undefDel) ==
  CacheImageCounted(
    World(With(w1.storage, getCacheKey(url), CachedImageOf(w1.files, url, t)),
          w1.files),
    Incremented(getCacheMetadata(With(w1.storage, getCacheKey(url),
                                      CachedImageOf(w1.files, url, t)), t),
                FileSize(w1.files, getCacheLocalPath(getCacheKey(url)))),
    getCacheLocalPath(getCacheKey(url)), t, order, undefDel)

\* cacheImage once getCachedUri has returned g
CacheImageAfterLookup(g, url, t, dl, order, undefDel) ==
  IF g.ret # NullPath THEN CacheResult(g.w, g.ret, 0)
  ELSE IF dl.k = "throw" THEN CacheResult(g.w, NullPath, 1)
  ELSE IF ~StatusAccepted(dl)
  THEN CacheResult(World(g.w.storage,
                         WriteFile(g.w.files, getCacheLocalPath(getCacheKey(url)),
                                   dl.size, RemoteSource(url))),
                   NullPath, 1)
  ELSE CacheImageStored(World(g.w.storage,
                              WriteFile(g.w.files, getCacheLocalPath(getCacheKey(url)),
                                        dl.size, RemoteSource(url))),
                        url, t, order, undefDel)

cacheImage(w, url, t, dl, order, undefDel) ==
  CacheImageAfterLookup(getCachedUri(w, url, t), url, t, dl, order, undefDel)

\* getImage(url) once getCachedUri has returned g, for a url that is neither
\* file:// nor data:; what is returned is a uri, of a path or the url itself
GetImageAfterLookup(g, url, t, dl, order, undefDel) ==
  IF g.ret # NullPath THEN CacheResult(g.w, PathUri(g.ret), 0)
  ELSE [cacheImage(g.w, url, t, dl, order, undefDel)
          EXCEPT !.ret = IF @ # NullPath THEN PathUri(@) ELSE RemoteSource(url)]

getImage(w, uri, t, dl, order, undefDel) ==
  IF StartsWith(uri.text, FILE_SCHEME) \/ StartsWith(uri.text, DATA_SCHEME)
  THEN CacheResult(w, uri, 0)
  ELSE GetImageAfterLookup(getCachedUri(w, uri.text, t), uri.text, t, dl,
                           order, undefDel)

\* (variant) the whole document directory is deleted
DeleteAllFiles(w, dir) == World(w.storage, <<>>)

\* (variant) the directory and its files stay
KeepDirectoryOf(w, dir) == w

\* deleteAsync(dir): the directory goes with all that is in it
DeleteDirectoryOf(w, dir) ==
  World(w.storage, [p \in {q \in DOMAIN w.files : q.dir # dir} |-> w.files[p]])

\* clearCache: multiRemove of the keys with the prefix, deleteAsync of the
\* cache directory
clearCache(w) ==
  DeleteDirectoryOf(
    World([k \in DOMAIN w.storage \ (CacheKeys(w.storage) \cup {METADATA_KEY})
             |-> w.storage[k]],
          w.files),
    CACHE_DIRECTORY)

(***************************************************************************)
(* State, and the record of the last completed operation.                  *)
(*   storage  AsyncStorage: key -> parsed JSON value                       *)
(*   files    the file system: path -> file                                *)
(*   now      Date.now()                                                   *)
(*   call     the store operation in flight, Idle when none                *)
(*   last     the last completed call: its name, argument, result, what it *)
(*            did (info) and what it started from (pre)                    *)
(***************************************************************************)
Idle == [op |-> "idle"]

NoEntry == [t |-> "none"]

NoInfo == [downloads |-> 0, cleaned |-> FALSE, evicted |-> <<>>, before |-> <<>>,
           failed |-> FALSE]

NoPre == [entry |-> NoEntry, file |-> FALSE, meta |-> NoEntry]

\* what a cache call on url starts from: the ledger value under the url's
\* key, whether the file it refers to exists, and the stored metadata
CachePre(url) ==
  LET key == getCacheKey(url) IN
  [entry |-> IF key \in DOMAIN storage THEN storage[key] ELSE NoEntry,
   file |-> key \in DOMAIN storage /\ Exists(files, storage[key].localPath),
   meta |-> IF METADATA_KEY \in DOMAIN storage THEN storage[METADATA_KEY]
            ELSE NoEntry]

Done(op, arg, ret, info, pre) ==
  [op |-> op, arg |-> arg, ret |-> ret, info |-> info, pre |-> pre]

\* sizes of the files a server may deliver
Sizes == {40 * MiB, 70 * MiB}

\* the device starts with one photo in the picker's directory
InitialFiles ==
  [p \in {[dir |-> "picker/", name |-> <<"p">>]} |->
     [size |-> 200, partial |-> FALSE, src |-> NoUri]]

Init ==
  /\ storage = <<>>
  /\ files = InitialFiles
  /\ now = 0
  /\ call = Idle
  /\ last = [op |-> "init", arg |-> <<>>, ret |-> FALSE, info |-> NoInfo,
             pre |-> NoPre]

\* a millisecond passes between two calls
TickMs ==
  /\ call = Idle
  /\ now' = now + 1
  /\ (now' % MAX_CACHE_AGE) <= MaxSmallTicks
  /\ last' = Done("tick", <<>>, FALSE, NoInfo, NoPre)
  /\ UNCHANGED <<storage, files, call>>

\* the maximum cache age passes between two calls
TickAge ==
  /\ call = Idle
  /\ now' = now + MAX_CACHE_AGE
  /\ (now' \div MAX_CACHE_AGE) <= MaxBigTicks
  /\ last' = Done("tick", <<>>, FALSE, NoInfo, NoPre)
  /\ UNCHANGED <<storage, files, call>>

\* the paths the ledger refers to: of cache entries and of store records
Referenced(st) ==
  UNION {IF st[k].t = "entry" THEN {st[k].localPath}
         ELSE IF st[k].t = "list" THEN {st[k].items[i].localPath : i \in DOMAIN st[k].items}
         ELSE {} : k \in DOMAIN st}

\* a file disappears while its ledger record stays: what the system reclaiming
\* space, or a delete whose ledger write did not follow, leaves behind
LoseFile ==
  /\ call = Idle
  /\ \E p \in DOMAIN files \cap Referenced(storage) :
       /\ files' = Without(files, p)
       /\ last' = Done("loseFile", p, FALSE, NoInfo, NoPre)
  /\ UNCHANGED <<storage, now, call>>

\* the value under the key of a cache entry is overwritten from outside the
\* service with a string that does not parse, or with the empty string
CorruptEntry ==
  /\ call = Idle
  /\ \E k \in CacheKeys(storage) \ {METADATA_KEY}, v \in {Corrupt, Empty} :
       /\ storage[k].t = "entry"
       /\ storage' = With(storage, k, v)
       /\ last' = Done("corruptEntry", k, FALSE, NoInfo, NoPre)
  /\ UNCHANGED <<files, now, call>>

\* every value under a cache key parses
AllParse(st) == ListedKeys(st) = CacheKeys(st)

IsCachedCall ==
  /\ call = Idle
  /\ \E url \in Urls :
     \E r \in {isCached(World(storage, files), url, now)} :
       /\ storage' = r.w.storage
       /\ files' = r.w.files
       /\ last' = Done("isCached", url, r.ret, NoInfo, CachePre(url))
  /\ UNCHANGED <<now, call>>

GetCachedUriCall ==
  /\ call = Idle
  /\ \E url \in Urls :
     \E r \in {getCachedUri(World(storage, files), url, now)} :
       /\ storage' = r.w.storage
       /\ files' = r.w.files
       /\ last' = Done("getCachedUri", url, r.ret, NoInfo, CachePre(url))
  /\ UNCHANGED <<now, call>>

RemoveFromCacheCall ==
  /\ call = Idle
  /\ \E url \in Urls :
     \E w \in {removeFromCache(World(storage, files), url, now)} :
       /\ storage' = w.storage
       /\ files' = w.files
       /\ last' = Done("removeFromCache", url, FALSE, NoInfo, CachePre(url))
  /\ UNCHANGED <<now, call>>

CleanupCacheCall ==
  /\ call = Idle
  /\ \E order \in SortedOrders(storage) :
     \E undefDel \in IF METADATA_KEY \in DOMAIN storage
                     THEN {"throws", "noop"} ELSE {"throws"} :
     \E r \in {cleanupCache(World(storage, files), now, order, undefDel)} :
       /\ storage' = r.w.storage
       /\ files' = r.w.files
       /\ last' = Done("cleanupCache", <<>>, FALSE,
                       [downloads |-> 0, cleaned |-> TRUE, evicted |-> r.evicted,
                        before |-> r.before, failed |-> FALSE], NoPre)
  /\ UNCHANGED <<now, call>>

\* cacheImage(url) with download outcome dl: the sort order and the outcome of
\* deleteAsync(undefined) are drawn only when the call reaches cleanupCache
\* (dry tells whether it does, whatever the order)
CacheImageCall ==
  /\ call = Idle
  /\ \E url \in Urls, dl \in Downloads(Sizes) :
     \E dry \in {cacheImage(World(storage, files), url, now, dl, <<>>, "throws")} :
     \E r \in IF dry.cleaned
               THEN {cacheImage(World(storage, files), url, now, dl, order, undefDel) :
                       order \in SortedOrders(dry.before),
                       undefDel \in {"throws", "noop"}}
               ELSE {dry} :
       /\ storage' = r.w.storage
       /\ files' = r.w.files
       /\ last' = Done("cacheImage", url, r.ret,
                       [downloads |-> r.downloads, cleaned |-> r.cleaned,
                        evicted |-> r.evicted, before |-> r.before,
                        failed |-> r.downloads = 1 /\ dl.k # "ok"],
                       CachePre(url))
  /\ UNCHANGED <<now, call>>

\* what clearCache starts from: whether the ledger holds an entry, whether
\* the cache directory holds a file, whether metadata is stored
ClearPre ==
  [entry |-> IF CacheKeys(storage) \ {METADATA_KEY} # {} THEN [t |-> "some"]
             ELSE NoEntry,
   file |-> \E p \in DOMAIN files : p.dir = CACHE_DIRECTORY,
   meta |-> IF METADATA_KEY \in DOMAIN storage THEN [t |-> "some"] ELSE NoEntry]

ClearCacheCall ==
  /\ call = Idle
  /\ \E w \in {clearCache(World(storage, files))} :
       /\ storage' = w.storage
       /\ files' = w.files
       /\ last' = Done("clearCache", <<>>, FALSE, NoInfo, ClearPre)
  /\ UNCHANGED <<now, call>>

\* the uris getImage is called with: remote urls, a local file, inline data
ImageUris ==
  {RemoteSource(u) : u \in Urls}
    \cup {PathUri([dir |-> "picker/", name |-> <<"p">>]),
          [text |-> DATA_SCHEME \o <<";", ",", "Q">>, path |-> NullPath]}

\* getImage(uri): as for cacheImage, the sort order and the outcome of
\* deleteAsync(undefined) are drawn only when the call reaches cleanupCache
GetImageCall ==
  /\ call = Idle
  /\ \E uri \in ImageUris, dl \in Downloads(Sizes) :
     \E dry \in {getImage(World(storage, files), uri, now, dl, <<>>, "throws")} :
     \E r \in IF dry.cleaned
               THEN {getImage(World(storage, files), uri, now, dl, order, undefDel) :
                       order \in SortedOrders(dry.before),
                       undefDel \in {"throws", "noop"}}
               ELSE {dry} :
       /\ storage' = r.w.storage
       /\ files' = r.w.files
       /\ last' = Done("getImage", uri, r.ret,
                       [downloads |-> r.downloads, cleaned |-> r.cleaned,
                        evicted |-> r.evicted, before |-> r.before,
                        failed |-> r.downloads = 1 /\ dl.k # "ok"],
                       IF uri.text \in Urls THEN CachePre(uri.text) ELSE NoPre)
  /\ UNCHANGED <<now, call>>

(***************************************************************************)
(* ImageStorageService: constants, sources, paths.                         *)
(***************************************************************************)
TRAINING_IMAGES_KEY == <<"t","r","a","i","n","i","n","g","_",
                         "i","m","a","g","e","s">>
GENERATED_PHOTOS_KEY == <<"g","e","n","e","r","a","t","e","d","_",
                          "p","h","o","t","o","s">>
IMAGES_DIRECTORY == "stored_images/"


\* a photo of the picker, outside the directories of the two services
PickerPath == [dir |-> "picker/", name |-> <<"p">>]
PickerUri == PathUri(PickerPath)
DataUri == [text |-> <<"d","a","t","a",":",";",",","Q">>, path |-> NullPath]
RemoteUri == RemoteSource(UrlI)

\* `${id}_${Date.now()}.${extension}`: the id and the time (the extension is
\* always jpg); the text is one-to-one with the pair, the time being digits
generateFileName(id, t) == <<id, t>>

\* `${IMAGES_DIRECTORY}${fileName}`
getStoreLocalPath(fileName) == [dir |-> IMAGES_DIRECTORY, name |-> fileName]

\* what the write of storeImageFile can come to, decided by the branch taken:
\*   "ok"      the file is fully written
\*   "partial" the write throws and leaves a partial file
\*   "none"    the write throws and leaves no file
\*   "status"  downloadAsync wrote a body and returned a status other than 200
\* copyAsync from a source that does not exist can only throw.
StoreOutcomes(fs, uri) ==
  IF StartsWith(uri.text, DATA_SCHEME) THEN {"ok", "partial", "none"}
  ELSE IF StartsWith(uri.text, FILE_SCHEME)
  THEN (IF Exists(fs, uri.path) /\ ~fs[uri.path].partial
        THEN {"ok", "partial", "none"} ELSE {"none"})
  ELSE {"ok", "partial", "none", "status"}

\* the file system while storeImageFile is writing to localPath
StoreStart(fs, uri, localPath) ==
  IF StartsWith(uri.text, FILE_SCHEME) /\ ~Exists(fs, uri.path) THEN fs
  ELSE With(fs, localPath, [size |-> 0, partial |-> TRUE, src |-> uri])

\* bytes of the image behind a source
SourceSize(fs, uri) ==
  IF StartsWith(uri.text, DATA_SCHEME) THEN 100
  ELSE IF StartsWith(uri.text, FILE_SCHEME) THEN FileSize(fs, uri.path)
  ELSE 300

\* (variant) a local source is moved to localPath, not copied
StoreFinishMoves(fs, uri, localPath, out) ==
  IF out = "ok"
  THEN Without(With(fs, localPath,
                    [size |-> SourceSize(fs, uri), partial |-> FALSE, src |-> uri]),
               uri.path)
  ELSE IF out = "status"
  THEN With(fs, localPath, [size |-> 0, partial |-> FALSE, src |-> uri])
  ELSE IF out = "none" THEN Without(fs, localPath)
  ELSE fs

\* the file system once the write has ended with outcome out
StoreFinish(fs, uri, localPath, out) ==
  IF out = "ok"
  THEN With(fs, localPath, [size |-> SourceSize(fs, uri), partial |-> FALSE, src |-> uri])
  ELSE IF out = "status"
  THEN With(fs, localPath, [size |-> 0, partial |-> FALSE, src |-> uri])
  ELSE IF out = "none" THEN Without(fs, localPath)
  ELSE fs

\* (variant) storeImageFile swallows the error and returns localPath
StoreNeverThrows(out) == FALSE

\* storeImageFile returns localPath on "ok" and throws otherwise
StoreThrows(out) == out # "ok"

\* deleteImageFile
deleteImageFile(fs, localPath) == DeleteFile(fs, localPath)

\* `uri.startsWith('file://') ? undefined : uri`
OriginalUrl(uri) == IF StartsWith(uri.text, FILE_SCHEME) THEN NoUri ELSE uri

(***************************************************************************)
(* ImageStorageService: the ledger lists and the reads that reconcile them.*)
(* A stored list is [t |-> "list", items |-> <<record, ...>>].             *)
(***************************************************************************)
List(items) == [t |-> "list", items |-> items]

\* (variant) every record is taken to be valid
AllRecords(fs, seq) == seq

\* the records of seq whose file exists, in the order of seq
RECURSIVE ValidRecords(_, _)
ValidRecords(fs, seq) ==
  IF seq = <<>> THEN <<>>
  ELSE (IF Exists(fs, Head(seq).localPath) THEN <<Head(seq)>> ELSE <<>>)
         \o ValidRecords(fs, Tail(seq))

\* Array.prototype.sort with a consistent comparator is stable: insert x
\* after the items that do not come after it. Before(a, b) is "a sorts
\* strictly before b".
RECURSIVE InsertByOrder(_, _)
InsertByOrder(seq, x) ==
  IF seq = <<>> THEN <<x>>
  ELSE IF x.displayOrder < Head(seq).displayOrder THEN <<x>> \o seq
  ELSE <<Head(seq)>> \o InsertByOrder(Tail(seq), x)

RECURSIVE SortByDisplayOrder(_)
SortByDisplayOrder(seq) ==
  IF seq = <<>> THEN <<>>
  ELSE InsertByOrder(SortByDisplayOrder(SubSeq(seq, 1, Len(seq) - 1)), seq[Len(seq)])

\* (variant) the comparator is a - b: oldest first
RECURSIVE InsertOldestFirst(_, _)
InsertOldestFirst(seq, x) ==
  IF seq = <<>> THEN <<x>>
  ELSE IF x.createdAt < Head(seq).createdAt THEN <<x>> \o seq
  ELSE <<Head(seq)>> \o InsertOldestFirst(Tail(seq), x)

RECURSIVE InsertByRecency(_, _)
InsertByRecency(seq, x) ==
  IF seq = <<>> THEN <<x>>
  ELSE IF x.createdAt > Head(seq).createdAt THEN <<x>> \o seq
  ELSE <<Head(seq)>> \o InsertByRecency(Tail(seq), x)

RECURSIVE SortByCreatedAtDesc(_)
SortByCreatedAtDesc(seq) ==
  IF seq = <<>> THEN <<>>
  ELSE InsertByRecency(SortByCreatedAtDesc(SubSeq(seq, 1, Len(seq) - 1)), seq[Len(seq)])

\* (variant) the reads never call setItem
ReconcileNeverWrites(w, key, validImages) ==
  [w |-> w, ret |-> validImages, wrote |-> FALSE]

\* (variant) the reads call setItem whether or not a record was dropped
ReconcileAlwaysWrites(w, key, validImages) ==
  [w |-> World(With(w.storage, key, List(validImages)), w.files),
   ret |-> validImages, wrote |-> TRUE]

\* the reads once validImages is computed: setItem if a record was dropped
ReconcileList(w, key, validImages) ==
  IF Len(validImages) # Len(w.storage[key].items)
  THEN [w |-> World(With(w.storage, key, List(validImages)), w.files),
        ret |-> validImages, wrote |-> TRUE]
  ELSE [w |-> w, ret |-> validImages, wrote |-> FALSE]

\* the body shared by getTrainingImages and getGeneratedPhotos: ret is the
\* list before the final sort, wrote tells whether setItem was called
Reconcile(w, key) ==
  IF key \notin DOMAIN w.storage
  THEN [w |-> w, ret |-> <<>>, wrote |-> FALSE]
  ELSE ReconcileList(w, key, ValidRecords(w.files, w.storage[key].items))

getTrainingImages(w) ==
  [Reconcile(w, TRAINING_IMAGES_KEY) EXCEPT !.ret = SortByDisplayOrder(@)]

getGeneratedPhotos(w) ==
  [Reconcile(w, GENERATED_PHOTOS_KEY) EXCEPT !.ret = SortByCreatedAtDesc(@)]

RECURSIVE DeleteFilesOf(_, _)
DeleteFilesOf(fs, seq) ==
  IF seq = <<>> THEN fs
  ELSE DeleteFilesOf(deleteImageFile(fs, Head(seq).localPath), Tail(seq))

\* clearTrainingImages once getTrainingImages has returned g
ClearAfterRead(g, key) ==
  World(Without(g.w.storage, key), DeleteFilesOf(g.w.files, g.ret))

clearTrainingImages(w) == ClearAfterRead(getTrainingImages(w), TRAINING_IMAGES_KEY)

HasId(seq, id) == \E i \in DOMAIN seq : seq[i].id = id

\* photos.find(photo => photo.id === id): the first one
FirstWithId(seq, id) == seq[CHOOSE i \in DOMAIN seq :
                              seq[i].id = id /\ \A j \in 1..(i - 1) : seq[j].id # id]

RECURSIVE WithoutId(_, _)
WithoutId(seq, id) ==
  IF seq = <<>> THEN <<>>
  ELSE (IF Head(seq).id = id THEN <<>> ELSE <<Head(seq)>>) \o WithoutId(Tail(seq), id)

\* (variant) the file of the record is left on disk
DeleteAfterReadKeepsFile(g, key, id) ==
  World(With(g.w.storage, key, List(WithoutId(g.ret, id))), g.w.files)

\* a delete by id once the read of the collection has returned g
DeleteAfterRead(g, key, id) ==
  World(With(g.w.storage, key, List(WithoutId(g.ret, id))),
        IF HasId(g.ret, id)
        THEN deleteImageFile(g.w.files, FirstWithId(g.ret, id).localPath)
        ELSE g.w.files)

deleteTrainingImage(w, id) ==
  DeleteAfterRead(getTrainingImages(w), TRAINING_IMAGES_KEY, id)

deleteGeneratedPhoto(w, id) ==
  DeleteAfterRead(getGeneratedPhotos(w), GENERATED_PHOTOS_KEY, id)

\* (variant) every record is given displayOrder 0
TrainingRecordUnordered(uri, i, t) ==
  [id |-> <<"training", t, i>>,
   localPath |-> getStoreLocalPath(generateFileName(<<"training", t, i>>, t)),
   originalUrl |-> OriginalUrl(uri),
   timestamp |-> t,
   displayOrder |-> 0]

\* the record saveTrainingImages builds for imageUris[i] (i counted from 0)
TrainingRecord(uri, i, t) ==
  LET id == <<"training", t, i>> IN
  [id |-> id,
   localPath |-> getStoreLocalPath(generateFileName(id, t)),
   originalUrl |-> OriginalUrl(uri),
   timestamp |-> t,
   displayOrder |-> i]

\* the id saveGeneratedPhoto uses: photoData.id || `generated_${Date.now()}`
NoId == <<>>
GeneratedId(given, t) == IF given # NoId THEN given ELSE <<"generated", t>>

\* photoData.generationStatus || 'completed'
NoStatus == ""
GeneratedStatus(given) == IF given # NoStatus THEN given ELSE "completed"

\* the record saveGeneratedPhoto builds (style, packageId, promptUsed and
\* metadata are copied from the argument and read by nothing here)
GeneratedRecord(photoData, t) ==
  LET id == GeneratedId(photoData.id, t) IN
  [id |-> id,
   localPath |-> getStoreLocalPath(generateFileName(id, t)),
   originalUrl |-> OriginalUrl(photoData.uri),
   timestamp |-> t,
   createdAt |-> t,
   generationStatus |-> GeneratedStatus(photoData.generationStatus)]

\* the statuses of a generated photo (line 238)
Statuses == {"pending", "processing", "completed", "failed"}

\* (variant) the spread keeps the old fields
KeepFields(rec, updates) == rec

\* { ...photos[photoIndex], ...updates }: the fields of updates over the old
\* ones (a field given as undefined is absent once stringified: NullPath)
MergeFields(rec, updates) ==
  [f \in DOMAIN rec |-> IF f \in DOMAIN updates THEN updates[f] ELSE rec[f]]

\* updateGeneratedPhoto once getGeneratedPhotos has returned g: photos is the
\* sorted list g.ret, photoIndex the first index with the id
UpdateAfterRead(g, id, updates) ==
  IF ~HasId(g.ret, id) THEN [w |-> g.w, ret |-> NoEntry]
  ELSE LET photoIndex == CHOOSE i \in DOMAIN g.ret :
                           g.ret[i].id = id /\ \A j \in 1..(i - 1) : g.ret[j].id # id
           photos == [g.ret EXCEPT ![photoIndex] = MergeFields(@, updates)]
       IN  [w |-> World(With(g.w.storage, GENERATED_PHOTOS_KEY, List(photos)),
                        g.w.files),
            ret |-> photos[photoIndex]]

updateGeneratedPhoto(w, id, updates) ==
  UpdateAfterRead(getGeneratedPhotos(w), id, updates)

clearGeneratedPhotos(w) == ClearAfterRead(getGeneratedPhotos(w), GENERATED_PHOTOS_KEY)

AI_MODEL_KEY == <<"a","i","_","m","o","d","e","l","_","n","a","m","e">>

\* AsyncStorage.setItem(AI_MODEL_KEY, name)
setAIModelName(st, name) == With(st, AI_MODEL_KEY, [t |-> "name", value |-> name])

\* AsyncStorage.getItem(AI_MODEL_KEY): the stored name, or null
getAIModelName(st) == IF AI_MODEL_KEY \in DOMAIN st THEN st[AI_MODEL_KEY] ELSE NoEntry

\* clearGeneratedPhotos and removeItem(AI_MODEL_KEY), after clearTrainingImages
ClearModelAfterTraining(w) ==
  World(Without(clearGeneratedPhotos(w).storage, AI_MODEL_KEY),
        clearGeneratedPhotos(w).files)

clearAIModel(w) == ClearModelAfterTraining(clearTrainingImages(w))

\* (variant) the directory is left in place
KeepDirectory(w, dir) == w

\* deleteAsync(IMAGES_DIRECTORY): the directory goes with all that is in it
DeleteDirectory(w, dir) ==
  World(w.storage, [p \in {q \in DOMAIN w.files : q.dir # dir} |-> w.files[p]])

clearAllData(w) == DeleteDirectory(clearAIModel(w), IMAGES_DIRECTORY)

\* (variant) the sizes are taken from a counter that is never fed
SumNothing(fs, seq) == 0

\* the loops of getStorageStats: totalSize += fileInfo.size || 0 for each
\* record whose file exists
RECURSIVE SumFileSizes(_, _)
SumFileSizes(fs, seq) ==
  IF seq = <<>> THEN 0
  ELSE (IF Exists(fs, Head(seq).localPath) THEN fs[Head(seq).localPath].size ELSE 0)
         + SumFileSizes(fs, Tail(seq))

\* getStorageStats once the two reads have returned t and g
StatsAfterReads(t, g) ==
  [w |-> g.w,
   ret |-> [trainingImagesCount |-> Len(t.ret),
            generatedPhotosCount |-> Len(g.ret),
            totalStorageSize |-> SumFileSizes(g.w.files, t.ret)
                                   + SumFileSizes(g.w.files, g.ret)]]

getStorageStats(w) ==
  StatsAfterReads(getTrainingImages(w), getGeneratedPhotos(getTrainingImages(w).w))

(***************************************************************************)
(* ImageStorageService: calls.  saveTrainingImages and saveGeneratedPhoto  *)
(* are followed from await to await, with the call in flight kept in call; *)
(* the other calls are awaited as a whole.                                 *)
(***************************************************************************)
\* at most this many uris in one saveTrainingImages call
MaxUris == 2
\* saveGeneratedPhoto is called while the collection holds fewer than this
MaxPhotos == 2

\* a save fails or is cut short only while it leaves at most this many files
\* of the store directory that no record refers to
MaxOrphans == 1

TrainingUris == {PickerUri}
PhotoUris == {RemoteUri}

RECURSIVE SeqsUpTo(_, _)
SeqsUpTo(S, n) ==
  IF n = 0 THEN {<<>>}
  ELSE LET shorter == SeqsUpTo(S, n - 1)
       IN  shorter \cup {Append(q, x) : q \in {r \in shorter : Len(r) = n - 1}, x \in S}

\* a caller-chosen photo id
IdX == <<"x">>

\* what a store call starts from: the stored list of the collection and the
\* paths of ledger records whose file exists
Items(st, key) == IF key \in DOMAIN st THEN st[key].items ELSE <<>>

StorePre(key) ==
  [stored |-> key \in DOMAIN storage,
   list |-> Items(storage, key),
   present |-> {p \in Referenced(storage) : Exists(files, p)}]

\* the files of the store directory that no ledger record refers to
Orphans(st, fs) == {p \in DOMAIN fs : p.dir = IMAGES_DIRECTORY} \ Referenced(st)

StoreInfo(rejected, wrote) == [rejected |-> rejected, wrote |-> wrote]

\* what last holds while a save is in flight
InFlight == Done("inFlight", <<>>, FALSE, StoreInfo(FALSE, FALSE), NoPre)

\* saveTrainingImages(imageUris) up to the end of clearTrainingImages, for
\* imageUris drawn from inputs
SaveTrainingImagesStart(inputs) ==
  /\ call = Idle
  /\ \E imageUris \in inputs :
     \E w \in {clearTrainingImages(World(storage, files))} :
       /\ storage' = w.storage
       /\ files' = w.files
       /\ call' = [op |-> "saveTrainingImages",
                   pc |-> IF imageUris = <<>> THEN "commit" ELSE "write",
                   arg |-> imageUris, stored |-> <<>>,
                   pre |-> StorePre(TRAINING_IMAGES_KEY)]
  /\ last' = InFlight
  /\ UNCHANGED now

SaveTrainingImagesClear == SaveTrainingImagesStart(SeqsUpTo(TrainingUris, MaxUris))

\* at most this many uris in one saveTrainingImages call of a caller that
\* does not trim
MaxTrainingSet == 4

\* the localPath of each record of the collection, then one new source
ConcatUris(st) ==
  [i \in DOMAIN Items(st, TRAINING_IMAGES_KEY) |->
     PathUri(Items(st, TRAINING_IMAGES_KEY)[i].localPath)] \o <<PickerUri>>

\* saveTrainingImages of a caller that passes up to MaxTrainingSet uris, or
\* the current records followed by a new source
SaveTrainingSetClear ==
  SaveTrainingImagesStart(SeqsUpTo(TrainingUris, MaxTrainingSet)
                            \cup {ConcatUris(storage)})

\* the next record of the loop, for imageUris[i] with i = storedImages.length
NextTrainingRecord ==
  TrainingRecord(call.arg[Len(call.stored) + 1], Len(call.stored), now)

\* storeImageFile of the loop starts to write
SaveTrainingImagesWrite ==
  /\ call.op = "saveTrainingImages" /\ call.pc = "write"
  /\ files' = StoreStart(files, call.arg[Len(call.stored) + 1],
                         NextTrainingRecord.localPath)
  /\ call' = [call EXCEPT !.pc = "writing"]
  /\ UNCHANGED <<storage, now, last>>

\* storeImageFile of the loop ends: the record is pushed, or the call rejects
SaveTrainingImagesWritten ==
  /\ call.op = "saveTrainingImages" /\ call.pc = "writing"
  /\ LET uri == call.arg[Len(call.stored) + 1]
         rec == NextTrainingRecord
     IN  \E out \in StoreOutcomes(files, uri) :
           /\ files' = StoreFinish(files, uri, rec.localPath, out)
           /\ IF StoreThrows(out)
              THEN /\ Cardinality(Orphans(storage, files')) <= MaxOrphans
                   /\ call' = Idle
                   /\ last' = Done("saveTrainingImages", call.arg, <<>>,
                                   StoreInfo(TRUE, FALSE), call.pre)
              ELSE /\ call' = [call EXCEPT
                                 !.stored = Append(call.stored, rec),
                                 !.pc = IF Len(call.stored) + 1 = Len(call.arg)
                                        THEN "commit" ELSE "write"]
                   /\ last' = last
  /\ UNCHANGED <<storage, now>>

\* AsyncStorage.setItem(TRAINING_IMAGES_KEY, storedImages) and return
SaveTrainingImagesCommit ==
  /\ call.op = "saveTrainingImages" /\ call.pc = "commit"
  /\ storage' = With(storage, TRAINING_IMAGES_KEY, List(call.stored))
  /\ call' = Idle
  /\ last' = Done("saveTrainingImages", call.arg, call.stored,
                  StoreInfo(FALSE, TRUE), call.pre)
  /\ UNCHANGED <<files, now>>

PhotoDatas ==
  [id : {NoId, IdX}, uri : PhotoUris, generationStatus : {NoStatus}]

\* saveGeneratedPhoto(photoData): storeImageFile starts to write, for
\* photoData drawn from inputs
SaveGeneratedPhotoStart(inputs) ==
  /\ call = Idle
  /\ Len(Items(storage, GENERATED_PHOTOS_KEY)) < MaxPhotos
  /\ \E photoData \in inputs :
     \E rec \in {GeneratedRecord(photoData, now)} :
       /\ files' = StoreStart(files, photoData.uri, rec.localPath)
       /\ call' = [op |-> "saveGeneratedPhoto", pc |-> "writing",
                   arg |-> photoData, rec |-> rec,
                   pre |-> StorePre(GENERATED_PHOTOS_KEY)]
  /\ last' = InFlight
  /\ UNCHANGED <<storage, now>>

SaveGeneratedPhotoWrite == SaveGeneratedPhotoStart(PhotoDatas)

\* photos saved while their generation is still pending, or once it is done
StatusPhotoDatas ==
  [id : {NoId}, uri : PhotoUris, generationStatus : {NoStatus, "pending"}]

SaveStatusPhotoWrite == SaveGeneratedPhotoStart(StatusPhotoDatas)

\* photos saved from a file of the device: a photo of the picker, or the
\* file of a training record
LocalPhotoDatas(st) ==
  [id : {NoId},
   uri : {PickerUri} \cup {PathUri(Items(st, TRAINING_IMAGES_KEY)[i].localPath) :
                             i \in DOMAIN Items(st, TRAINING_IMAGES_KEY)},
   generationStatus : {NoStatus}]

SaveLocalPhotoWrite == SaveGeneratedPhotoStart(LocalPhotoDatas(storage))

\* storeImageFile ends: the record is built, or the call rejects
SaveGeneratedPhotoWritten ==
  /\ call.op = "saveGeneratedPhoto" /\ call.pc = "writing"
  /\ \E out \in StoreOutcomes(files, call.arg.uri) :
       /\ files' = StoreFinish(files, call.arg.uri, call.rec.localPath, out)
       /\ IF StoreThrows(out)
          THEN /\ Cardinality(Orphans(storage, files')) <= MaxOrphans
               /\ call' = Idle
               /\ last' = Done("saveGeneratedPhoto", call.arg, NoEntry,
                               StoreInfo(TRUE, FALSE), call.pre)
          ELSE /\ call' = [call EXCEPT !.pc = "commit"]
               /\ last' = last
  /\ UNCHANGED <<storage, now>>

\* getGeneratedPhotos, setItem of [storedPhoto, ...existingPhotos] and return
SaveGeneratedPhotoCommit ==
  /\ call.op = "saveGeneratedPhoto" /\ call.pc = "commit"
  /\ \E g \in {getGeneratedPhotos(World(storage, files))} :
       /\ storage' = With(g.w.storage, GENERATED_PHOTOS_KEY,
                          List(<<call.rec>> \o g.ret))
       /\ files' = g.w.files
  /\ call' = Idle
  /\ last' = Done("saveGeneratedPhoto", call.arg, call.rec,
                  StoreInfo(FALSE, TRUE), call.pre)
  /\ UNCHANGED now

\* the process dies while a save is in flight: what is on disk and in the
\* ledger stays, the rest of the call never runs
Crash ==
  /\ call # Idle
  /\ Cardinality(Orphans(storage, files)) <= MaxOrphans
  /\ call' = Idle
  /\ last' = Done("crash", call.op, FALSE, StoreInfo(TRUE, FALSE), NoPre)
  /\ UNCHANGED <<storage, files, now>>

GetTrainingImagesCall ==
  /\ call = Idle
  /\ \E g \in {getTrainingImages(World(storage, files))} :
       /\ storage' = g.w.storage
       /\ files' = g.w.files
       /\ last' = Done("getTrainingImages", <<>>, g.ret,
                       StoreInfo(FALSE, g.wrote), StorePre(TRAINING_IMAGES_KEY))
  /\ UNCHANGED <<now, call>>

GetGeneratedPhotosCall ==
  /\ call = Idle
  /\ \E g \in {getGeneratedPhotos(World(storage, files))} :
       /\ storage' = g.w.storage
       /\ files' = g.w.files
       /\ last' = Done("getGeneratedPhotos", <<>>, g.ret,
                       StoreInfo(FALSE, g.wrote), StorePre(GENERATED_PHOTOS_KEY))
  /\ UNCHANGED <<now, call>>

\* the ids a caller may name: those of the collection and one more
KnownIds(key) == {Items(storage, key)[i].id : i \in DOMAIN Items(storage, key)}

DeleteGeneratedPhotoCall ==
  /\ call = Idle
  /\ \E id \in KnownIds(GENERATED_PHOTOS_KEY) \cup {IdX} :
     \E w \in {deleteGeneratedPhoto(World(storage, files), id)} :
       /\ storage' = w.storage
       /\ files' = w.files
       /\ last' = Done("deleteGeneratedPhoto", id, FALSE,
                       StoreInfo(FALSE, TRUE), StorePre(GENERATED_PHOTOS_KEY))
  /\ UNCHANGED <<now, call>>

DeleteTrainingImageCall ==
  /\ call = Idle
  /\ \E id \in KnownIds(TRAINING_IMAGES_KEY) \cup {IdX} :
     \E w \in {deleteTrainingImage(World(storage, files), id)} :
       /\ storage' = w.storage
       /\ files' = w.files
       /\ last' = Done("deleteTrainingImage", id, FALSE,
                       StoreInfo(FALSE, TRUE), StorePre(TRAINING_IMAGES_KEY))
  /\ UNCHANGED <<now, call>>

ClearTrainingImagesCall ==
  /\ call = Idle
  /\ \E w \in {clearTrainingImages(World(storage, files))} :
       /\ storage' = w.storage
       /\ files' = w.files
       /\ last' = Done("clearTrainingImages", <<>>, FALSE,
                       StoreInfo(FALSE, TRUE), StorePre(TRAINING_IMAGES_KEY))
  /\ UNCHANGED <<now, call>>

\* the fields a caller updates: a status, or a failure with no file
Updates ==
  {[generationStatus |-> s] : s \in Statuses}
    \cup {[generationStatus |-> "failed", localPath |-> NullPath]}

UpdateGeneratedPhotoCall ==
  /\ call = Idle
  /\ \E id \in KnownIds(GENERATED_PHOTOS_KEY) \cup {IdX}, updates \in Updates :
     \E r \in {updateGeneratedPhoto(World(storage, files), id, updates)} :
       /\ storage' = r.w.storage
       /\ files' = r.w.files
       /\ last' = Done("updateGeneratedPhoto", [id |-> id, updates |-> updates],
                       r.ret, StoreInfo(FALSE, r.ret # NoEntry),
                       StorePre(GENERATED_PHOTOS_KEY))
  /\ UNCHANGED <<now, call>>

\* the names a caller gives to the model
ModelNames == {"m"}

SetAIModelNameCall ==
  /\ call = Idle
  /\ \E name \in ModelNames :
       /\ storage' = setAIModelName(storage, name)
       /\ last' = Done("setAIModelName", name, FALSE, StoreInfo(FALSE, TRUE), NoPre)
  /\ UNCHANGED <<files, now, call>>

\* what a teardown starts from: the store's keys of the ledger, the files of
\* the store directory and those of them that no record refers to
TeardownPre ==
  [stored |-> DOMAIN storage
                \cap {TRAINING_IMAGES_KEY, GENERATED_PHOTOS_KEY, AI_MODEL_KEY},
   present |-> {p \in DOMAIN files : p.dir = IMAGES_DIRECTORY},
   orphans |-> Orphans(storage, files)]

ClearAIModelCall ==
  /\ call = Idle
  /\ \E w \in {clearAIModel(World(storage, files))} :
       /\ storage' = w.storage
       /\ files' = w.files
       /\ last' = Done("clearAIModel", <<>>, FALSE, StoreInfo(FALSE, TRUE),
                       TeardownPre)
  /\ UNCHANGED <<now, call>>

ClearAllDataCall ==
  /\ call = Idle
  /\ \E w \in {clearAllData(World(storage, files))} :
       /\ storage' = w.storage
       /\ files' = w.files
       /\ last' = Done("clearAllData", <<>>, FALSE, StoreInfo(FALSE, TRUE),
                       TeardownPre)
  /\ UNCHANGED <<now, call>>

GetStorageStatsCall ==
  /\ call = Idle
  /\ \E r \in {getStorageStats(World(storage, files))} :
       /\ storage' = r.w.storage
       /\ files' = r.w.files
       /\ last' = Done("getStorageStats", <<>>, r.ret,
                       StoreInfo(FALSE, r.w.storage # storage), NoPre)
  /\ UNCHANGED <<now, call>>

(***************************************************************************)
(* preloadImages(urls): one cacheImage per remote url, all started before  *)
(* any is awaited (Promise.allSettled); each runs from one await to the    *)
(* next while the others may run in between. Every download succeeds.      *)
(*   lookup          getCachedUri (line 794)                               *)
(*   download        downloadAsync (line 803)                              *)
(*   setItem         getInfoAsync and setItem of the entry (lines 810-822) *)
(*   getMetadata     getCacheMetadata and the increments (lines 825-827)   *)
(*   updateMetadata  updateCacheMetadata (line 828)                        *)
(*   cleanup         cleanupCache (lines 831-833)                          *)
(***************************************************************************)
\* at most this many urls in one preloadImages call
MaxPreload == 2

PreloadUris == {RemoteSource(UrlI), RemoteSource(UrlJ), PickerUri}

\* url => !url.startsWith('file://') && !url.startsWith('data:')
IsRemote(uri) ==
  ~(StartsWith(uri.text, FILE_SCHEME) \/ StartsWith(uri.text, DATA_SCHEME))

PreloadCall(uri) ==
  [url |-> uri.text, pc |-> "lookup", fileSize |-> 0,
   metadata |-> [t |-> "meta", totalSize |-> 0, imageCount |-> 0]]

PreloadImagesStart ==
  /\ call = Idle
  /\ \E urls \in SeqsUpTo(PreloadUris, MaxPreload) :
       call' = [op |-> "preloadImages", arg |-> urls,
                calls |-> [i \in DOMAIN SelectSeq(urls, IsRemote) |->
                             PreloadCall(SelectSeq(urls, IsRemote)[i])],
                cleaned |-> FALSE,
                exact |-> CountersAreExact(storage)]
  /\ last' = Done("inFlight", <<>>, FALSE, NoInfo, NoPre)
  /\ UNCHANGED <<storage, files, now>>

PreloadAt(i, pc) ==
  /\ call.op = "preloadImages"
  /\ i \in DOMAIN call.calls
  /\ call.calls[i].pc = pc

PreloadLookup(i) ==
  /\ PreloadAt(i, "lookup")
  /\ \E g \in {getCachedUri(World(storage, files), call.calls[i].url, now)} :
       /\ storage' = g.w.storage
       /\ files' = g.w.files
       /\ call' = [call EXCEPT !["calls"][i].pc =
                                  IF g.ret # NullPath THEN "done" ELSE "download"]
  /\ UNCHANGED <<now, last>>

PreloadDownload(i) ==
  /\ PreloadAt(i, "download")
  /\ \E size \in Sizes :
       files' = WriteFile(files, getCacheLocalPath(getCacheKey(call.calls[i].url)),
                          size, RemoteSource(call.calls[i].url))
  /\ call' = [call EXCEPT !["calls"][i].pc = "setItem"]
  /\ UNCHANGED <<storage, now, last>>

PreloadSetItem(i) ==
  /\ PreloadAt(i, "setItem")
  /\ storage' = With(storage, getCacheKey(call.calls[i].url),
                     CachedImageOf(files, call.calls[i].url, now))
  /\ call' = [call EXCEPT
                !["calls"][i].fileSize =
                   FileSize(files, getCacheLocalPath(getCacheKey(call.calls[i].url))),
                !["calls"][i].pc = "getMetadata"]
  /\ UNCHANGED <<files, now, last>>

PreloadGetMetadata(i) ==
  /\ PreloadAt(i, "getMetadata")
  /\ call' = [call EXCEPT
                !["calls"][i].metadata =
                   Incremented(getCacheMetadata(storage, now), call.calls[i].fileSize),
                !["calls"][i].pc = "updateMetadata"]
  /\ UNCHANGED <<storage, files, now, last>>

PreloadUpdateMetadata(i) ==
  /\ PreloadAt(i, "updateMetadata")
  /\ storage' = updateCacheMetadata(storage, call.calls[i].metadata)
  /\ call' = [call EXCEPT
                !["calls"][i].pc =
                   IF JsGreater(call.calls[i].metadata.totalSize, MAX_CACHE_SIZE)
                   THEN "cleanup" ELSE "done"]
  /\ UNCHANGED <<files, now, last>>

PreloadCleanup(i) ==
  /\ PreloadAt(i, "cleanup")
  /\ \E order \in SortedOrders(storage), undefDel \in {"throws", "noop"} :
     \E r \in {cleanupCache(World(storage, files), now, order, undefDel)} :
       /\ storage' = r.w.storage
       /\ files' = r.w.files
  /\ call' = [call EXCEPT !["calls"][i].pc = "done", !.cleaned = TRUE]
  /\ UNCHANGED <<now, last>>

\* Promise.allSettled: every cacheImage has returned
PreloadSettled ==
  /\ call.op = "preloadImages"
  /\ \A i \in DOMAIN call.calls : call.calls[i].pc = "done"
  /\ call' = Idle
  /\ last' = Done("preloadImages", call.arg, FALSE,
                  [NoInfo EXCEPT !.cleaned = call.cleaned],
                  [NoPre EXCEPT !.file = call.exact])
  /\ UNCHANGED <<storage, files, now>>

(***************************************************************************)
(* Two calls on the generated photos issued without awaiting the first:    *)
(* each is a deleteGeneratedPhoto or an updateGeneratedPhoto, and runs     *)
(* from one await to the next while the other may run in between.          *)
(*   getItem  AsyncStorage.getItem of getGeneratedPhotos (line 468)        *)
(*   getInfo  the getInfoAsync loop (lines 475-484)                        *)
(*   heal     the setItem of validPhotos (lines 487-492), then the sort    *)
(*   unlink   deleteImageFile of deleteGeneratedPhoto (lines 528-530)      *)
(*   setItem  the setItem of the caller (lines 511-514, 533-536)           *)
(***************************************************************************)
Racers == {"a", "b"}

RaceKinds == {"deleteGeneratedPhoto", "updateGeneratedPhoto"}

\* the fields a racing update changes
RaceUpdates == {[generationStatus |-> "completed"], [generationStatus |-> "failed"]}

\* where a call goes on once its getGeneratedPhotos has returned
AfterGet(kind) ==
  IF kind = "deleteGeneratedPhoto" THEN "unlink"
  ELSE IF kind = "saveGeneratedPhoto" THEN "prepend"
  ELSE "setItem"

RaceProc(kind, id, updates) ==
  [kind |-> kind, id |-> id, updates |-> updates, pc |-> "getItem",
   photos |-> <<>>, valid |-> <<>>]

\* both calls are issued
RaceStart ==
  /\ call = Idle
  /\ \E ka \in RaceKinds, kb \in RaceKinds :
     \E ia \in KnownIds(GENERATED_PHOTOS_KEY) \cup {IdX},
        ib \in KnownIds(GENERATED_PHOTOS_KEY) \cup {IdX} :
     \E ua \in RaceUpdates, ub \in RaceUpdates :
       /\ ka = "deleteGeneratedPhoto" => ua = [generationStatus |-> "completed"]
       /\ kb = "deleteGeneratedPhoto" => ub = [generationStatus |-> "completed"]
       /\ call' = [op |-> "race", a |-> RaceProc(ka, ia, ua),
                   b |-> RaceProc(kb, ib, ub),
                   pre |-> StorePre(GENERATED_PHOTOS_KEY)]
  /\ last' = InFlight
  /\ UNCHANGED <<storage, files, now>>

\* getItem: nothing stored returns [], else photos is what is stored now
RaceGetItem(who) ==
  /\ call.op = "race" /\ call[who].pc = "getItem"
  /\ call' = [call EXCEPT
                ![who].photos = Items(storage, GENERATED_PHOTOS_KEY),
                ![who].pc = IF GENERATED_PHOTOS_KEY \in DOMAIN storage
                            THEN "getInfo" ELSE AfterGet(call[who].kind)]
  /\ UNCHANGED <<storage, files, now, last>>

\* what the read decides from the photos it holds and the files of now
RaceReconciled(who) ==
  ReconcileList(World([k \in {GENERATED_PHOTOS_KEY} |-> List(call[who].photos)],
                      files),
                GENERATED_PHOTOS_KEY, ValidRecords(files, call[who].photos))

\* the getInfoAsync loop: validPhotos, and whether setItem is due
RaceGetInfo(who) ==
  /\ call.op = "race" /\ call[who].pc = "getInfo"
  /\ call' = [call EXCEPT
                ![who].valid = IF RaceReconciled(who).wrote
                               THEN RaceReconciled(who).ret
                               ELSE SortByCreatedAtDesc(RaceReconciled(who).ret),
                ![who].pc = IF RaceReconciled(who).wrote THEN "heal"
                            ELSE AfterGet(call[who].kind)]
  /\ UNCHANGED <<storage, files, now, last>>

\* setItem of validPhotos, then the sorted list is returned
RaceHeal(who) ==
  /\ call.op = "race" /\ call[who].pc = "heal"
  /\ storage' = With(storage, GENERATED_PHOTOS_KEY, List(call[who].valid))
  /\ call' = [call EXCEPT ![who].valid = SortByCreatedAtDesc(@),
                          ![who].pc = AfterGet(call[who].kind)]
  /\ UNCHANGED <<files, now, last>>

\* deleteGeneratedPhoto: deleteImageFile of the photo found
RaceUnlink(who) ==
  /\ call.op = "race" /\ call[who].pc = "unlink"
  /\ files' = IF HasId(call[who].valid, call[who].id)
              THEN deleteImageFile(files,
                                   FirstWithId(call[who].valid, call[who].id).localPath)
              ELSE files
  /\ call' = [call EXCEPT ![who].pc = "setItem"]
  /\ UNCHANGED <<storage, now, last>>

\* the setItem of the caller: remainingPhotos, or photos with the update
RaceSetItem(who) ==
  /\ call.op = "race" /\ call[who].pc = "setItem"
  /\ storage' =
       IF call[who].kind = "deleteGeneratedPhoto"
       THEN With(storage, GENERATED_PHOTOS_KEY,
                 List(WithoutId(call[who].valid, call[who].id)))
       ELSE UpdateAfterRead([w |-> World(storage, files), ret |-> call[who].valid],
                            call[who].id, call[who].updates).w.storage
  /\ call' = [call EXCEPT ![who].pc = "done"]
  /\ UNCHANGED <<files, now, last>>

\* a racing saveGeneratedPhoto(photoData): the record is the one of a call
\* alone, storeImageFile is still to run
InsertProc(photoData, t) ==
  [kind |-> "saveGeneratedPhoto", arg |-> photoData,
   rec |-> GeneratedRecord(photoData, t), pc |-> "store",
   photos |-> <<>>, valid |-> <<>>]

\* two saveGeneratedPhoto calls are issued, the second without awaiting the
\* first
InsertStart ==
  /\ call = Idle
  /\ Len(Items(storage, GENERATED_PHOTOS_KEY)) < MaxPhotos
  /\ \E pa \in PhotoDatas, pb \in PhotoDatas :
       call' = [op |-> "race", a |-> InsertProc(pa, now), b |-> InsertProc(pb, now),
                pre |-> StorePre(GENERATED_PHOTOS_KEY)]
  /\ last' = InFlight
  /\ UNCHANGED <<storage, now>>
  /\ UNCHANGED files

\* storeImageFile of a racing save, which succeeds
InsertStore(who) ==
  /\ call.op = "race" /\ call[who].pc = "store"
  /\ "ok" \in StoreOutcomes(files, call[who].arg.uri)
  /\ files' = StoreFinish(StoreStart(files, call[who].arg.uri,
                                     call[who].rec.localPath),
                          call[who].arg.uri, call[who].rec.localPath, "ok")
  /\ call' = [call EXCEPT ![who].pc = "getItem"]
  /\ UNCHANGED <<storage, now, last>>

\* setItem of [storedPhoto, ...existingPhotos] and return
InsertPrepend(who) ==
  /\ call.op = "race" /\ call[who].pc = "prepend"
  /\ storage' = With(storage, GENERATED_PHOTOS_KEY,
                     List(<<call[who].rec>> \o call[who].valid))
  /\ call' = [call EXCEPT ![who].pc = "done"]
  /\ UNCHANGED <<files, now, last>>

\* both calls have settled
RaceSettled ==
  /\ call.op = "race" /\ call.a.pc = "done" /\ call.b.pc = "done"
  /\ call' = Idle
  /\ last' = Done("race", <<call.a.kind, call.b.kind>>, FALSE,
                  StoreInfo(FALSE, TRUE), call.pre)
  /\ UNCHANGED <<storage, files, now>>

StoreNext ==
  \/ TickMs
  \/ LoseFile
  \/ SaveTrainingImagesClear
  \/ SaveTrainingImagesWrite
  \/ SaveTrainingImagesWritten
  \/ SaveTrainingImagesCommit
  \/ SaveGeneratedPhotoWrite
  \/ SaveGeneratedPhotoWritten
  \/ SaveGeneratedPhotoCommit
  \/ Crash
  \/ GetTrainingImagesCall
  \/ GetGeneratedPhotosCall
  \/ DeleteGeneratedPhotoCall
  \/ DeleteTrainingImageCall
  \/ ClearTrainingImagesCall

StoreSpec == Init /\ [][StoreNext]_vars

CacheNext ==
  \/ TickMs
  \/ TickAge
  \/ LoseFile
  \/ IsCachedCall
  \/ GetCachedUriCall
  \/ RemoveFromCacheCall
  \/ CleanupCacheCall
  \/ CacheImageCall

CacheSpec == Init /\ [][CacheNext]_vars

\* images are cached, values of the ledger are damaged, the cache is cleaned
CorruptNext ==
  \/ TickMs
  \/ AllParse(storage) /\ CacheImageCall
  \/ CorruptEntry
  \/ CleanupCacheCall

CorruptSpec == Init /\ [][CorruptNext]_vars

\* the cache calls, clearCache among them
ClearNext ==
  \/ TickMs
  \/ TickAge
  \/ LoseFile
  \/ IsCachedCall
  \/ GetCachedUriCall
  \/ RemoveFromCacheCall
  \/ CleanupCacheCall
  \/ CacheImageCall
  \/ ClearCacheCall

ClearSpec == Init /\ [][ClearNext]_vars

\* the generated photos and their statuses
PhotoNext ==
  \/ TickMs
  \/ LoseFile
  \/ SaveStatusPhotoWrite
  \/ SaveGeneratedPhotoWritten
  \/ SaveGeneratedPhotoCommit
  \/ UpdateGeneratedPhotoCall
  \/ GetGeneratedPhotosCall

PhotoSpec == Init /\ [][PhotoNext]_vars

\* the training set of a caller that does not trim, or that adds to it
TrainingNext ==
  \/ TickMs
  \/ SaveTrainingSetClear
  \/ SaveTrainingImagesWrite
  \/ SaveTrainingImagesWritten
  \/ SaveTrainingImagesCommit
  \/ GetTrainingImagesCall

TrainingSpec == Init /\ [][TrainingNext]_vars

\* the account: both collections, the model name, the teardowns, the stats
AccountNext ==
  \/ TickMs
  \/ LoseFile
  \/ SaveTrainingImagesClear
  \/ SaveTrainingImagesWrite
  \/ SaveTrainingImagesWritten
  \/ SaveTrainingImagesCommit
  \/ SaveGeneratedPhotoWrite
  \/ SaveGeneratedPhotoWritten
  \/ SaveGeneratedPhotoCommit
  \/ SetAIModelNameCall
  \/ ClearAIModelCall
  \/ ClearAllDataCall
  \/ GetStorageStatsCall

AccountSpec == Init /\ [][AccountNext]_vars

\* getImage, the entry point of the screens
ImageNext ==
  \/ TickMs
  \/ TickAge
  \/ LoseFile
  \/ GetImageCall

ImageSpec == Init /\ [][ImageNext]_vars

\* the cache calls of IsolationNext are on two urls of different cache keys
IsolationUrls == {UrlI, UrlJ}

\* both services at work on the same AsyncStorage and the same file system
IsolationNext ==
  \/ CacheImageCall /\ last'.arg \in IsolationUrls
  \/ IsCachedCall /\ last'.arg \in IsolationUrls
  \/ RemoveFromCacheCall /\ last'.arg \in IsolationUrls
  \/ CleanupCacheCall
  \/ ClearCacheCall
  \/ SaveGeneratedPhotoWrite
  \/ SaveGeneratedPhotoWritten
  \/ SaveGeneratedPhotoCommit
  \/ DeleteGeneratedPhotoCall
  \/ SetAIModelNameCall
  \/ ClearAllDataCall

IsolationSpec == Init /\ [][IsolationNext]_vars

\* photos are saved, then two calls race, then the photos are read
RaceNext ==
  \/ SaveGeneratedPhotoWrite
  \/ SaveGeneratedPhotoWritten
  \/ SaveGeneratedPhotoCommit
  \/ RaceStart
  \/ \E who \in Racers : RaceGetItem(who)
  \/ \E who \in Racers : RaceGetInfo(who)
  \/ \E who \in Racers : RaceHeal(who)
  \/ \E who \in Racers : RaceUnlink(who)
  \/ \E who \in Racers : RaceSetItem(who)
  \/ RaceSettled
  \/ GetGeneratedPhotosCall

RaceSpec == Init /\ [][RaceNext]_vars

\* the screens preload their images
PreloadNext ==
  \/ TickMs
  \/ PreloadImagesStart
  \/ \E i \in 1..MaxPreload : PreloadLookup(i)
  \/ \E i \in 1..MaxPreload : PreloadDownload(i)
  \/ \E i \in 1..MaxPreload : PreloadSetItem(i)
  \/ \E i \in 1..MaxPreload : PreloadGetMetadata(i)
  \/ \E i \in 1..MaxPreload : PreloadUpdateMetadata(i)
  \/ \E i \in 1..MaxPreload : PreloadCleanup(i)
  \/ PreloadSettled

PreloadSpec == Init /\ [][PreloadNext]_vars

\* two photos are saved at once, then the photos are read
InsertNext ==
  \/ TickMs
  \/ LoseFile
  \/ InsertStart
  \/ \E who \in Racers : InsertStore(who)
  \/ \E who \in Racers : RaceGetItem(who)
  \/ \E who \in Racers : RaceGetInfo(who)
  \/ \E who \in Racers : RaceHeal(who)
  \/ \E who \in Racers : InsertPrepend(who)
  \/ RaceSettled
  \/ GetGeneratedPhotosCall

InsertSpec == Init /\ [][InsertNext]_vars

\* photos and training images are saved from files of the device
CopyNext ==
  \/ TickMs
  \/ SaveLocalPhotoWrite
  \/ SaveGeneratedPhotoWritten
  \/ SaveGeneratedPhotoCommit
  \/ SaveTrainingImagesClear
  \/ SaveTrainingImagesWrite
  \/ SaveTrainingImagesWritten
  \/ SaveTrainingImagesCommit

CopySpec == Init /\ [][CopyNext]_vars

\* the training set is saved, read and torn down
IngestNext ==
  \/ TickMs
  \/ SaveTrainingImagesClear
  \/ SaveTrainingImagesWrite
  \/ SaveTrainingImagesWritten
  \/ SaveTrainingImagesCommit
  \/ GetTrainingImagesCall
  \/ ClearAllDataCall

IngestSpec == Init /\ [][IngestNext]_vars

Next ==
  \/ CacheNext \/ StoreNext \/ PhotoNext \/ TrainingNext \/ AccountNext
  \/ ImageNext \/ IsolationNext \/ RaceNext \/ PreloadNext \/ IngestNext
  \/ InsertNext \/ CopyNext \/ ClearNext \/ CorruptNext

Spec == Init /\ [][Next]_vars
(***************************************************************************)
(* Properties of ImageCacheService, checked under CacheSpec.               *)
(***************************************************************************)
\* the keys of the CachedImage entries of the ledger
EntryKeys(st) == {k \in DOMAIN st : st[k].t = "entry"}

\* the stored counters, 0 and 0 when no metadata is stored
CountersOf(meta) ==
  IF meta.t = "meta" THEN meta ELSE [t |-> "meta", totalSize |-> 0, imageCount |-> 0]

\* C1: in every quiescent state the stored totalSize is the sum of the sizes
\* of the cache entries of the ledger and imageCount is their number.
C1_CountersMatchEntries ==
  LET m == getCacheMetadata(storage, now) IN
    /\ m.totalSize = SumOfSizes(storage, EntryKeys(storage))
    /\ m.imageCount = Cardinality(EntryKeys(storage))

\* C2: when cacheImage has run the automatic cleanupCache, the totalSize
\* stored in the metadata at its return is a number of at most 80 MiB.
C2_CleanupReachesTarget ==
  (last.op = "cacheImage" /\ last.info.cleaned) =>
    /\ METADATA_KEY \in DOMAIN storage
    /\ IsNum(storage[METADATA_KEY].totalSize)
    /\ storage[METADATA_KEY].totalSize <= TargetSize

\* C3: the entries a cleanupCache run removes are the shortest oldest-first
\* prefix of the entries that brings the sum of the remaining sizes to 80 MiB
\* or less: none is newer than an entry that stays, the entries that stay sum
\* to at most the target, putting back the newest removed one would exceed
\* it, and nothing is removed when the sum was within the target already.
C3_ShortestOldestPrefix ==
  (last.op \in {"cacheImage", "cleanupCache"} /\ last.info.cleaned) =>
    LET before == last.info.before
        entries == EntryKeys(before)
        removed == Range(last.info.evicted) \cap entries
        kept == entries \ removed
    IN  /\ \A a \in removed, b \in kept :
             before[a].timestamp <= before[b].timestamp
        /\ SumOfSizes(before, kept) <= TargetSize
        /\ \/ removed = {}
           \/ \E a \in removed :
                /\ \A b \in removed : before[b].timestamp <= before[a].timestamp
                /\ SumOfSizes(before, kept \cup {a}) > TargetSize
        /\ SumOfSizes(before, entries) <= TargetSize => removed = {}

\* C4: isCached(url) returns true exactly when an entry for url exists, is at
\* most MAX_CACHE_AGE old and its file exists, and then changes nothing; when
\* an entry exists and is expired or lacks its file, the entry is removed,
\* its file is deleted and the counters are lowered by it (not below zero).
C4_IsCachedIffValid ==
  last.op = "isCached" =>
    LET e == last.pre.entry
        key == getCacheKey(last.arg)
        valid == /\ e.t = "entry"
                 /\ now - e.timestamp <= MAX_CACHE_AGE
                 /\ last.pre.file
        m0 == CountersOf(last.pre.meta)
    IN  /\ last.ret = valid
        /\ valid =>
             /\ key \in DOMAIN storage /\ storage[key] = e
             /\ Exists(files, e.localPath)
             /\ CountersOf(getCacheMetadata(storage, now)) = m0
        /\ (e.t = "entry" /\ ~valid) =>
             /\ key \notin DOMAIN storage
             /\ ~Exists(files, e.localPath)
             /\ storage[METADATA_KEY].totalSize = JsSubClamp(m0.totalSize, e.size)
             /\ storage[METADATA_KEY].imageCount = Max(0, m0.imageCount - 1)

\* an isCached call that found an entry with its file and purged it as expired
C4_ExpiredEntryPurged ==
  /\ last.op = "isCached"
  /\ last.pre.entry.t = "entry"
  /\ last.pre.file
  /\ ~last.ret

\* C5: a cacheImage(url) that follows at once a cacheImage(url) that downloaded
\* and returned a path downloads nothing, returns the same path and changes
\* neither the ledger nor the counters.
C5_SecondCallIsAHit ==
  [][(/\ last.op = "cacheImage" /\ last.info.downloads = 1 /\ last.ret # NullPath
      /\ last'.op = "cacheImage" /\ last'.arg = last.arg)
       => (/\ last'.info.downloads = 0
           /\ last'.ret = last.ret
           /\ storage' = storage)]_vars

\* C6 as stated: a cacheImage(url) whose download fails returns null, leaves
\* no entry for url and leaves totalSize and imageCount as they were.
C6_FailureChangesNothing ==
  (last.op = "cacheImage" /\ last.info.failed) =>
    LET m0 == CountersOf(last.pre.meta)
        m1 == getCacheMetadata(storage, now)
    IN  /\ last.ret = NullPath
        /\ getCacheKey(last.arg) \notin DOMAIN storage
        /\ m1.totalSize = m0.totalSize
        /\ m1.imageCount = m0.imageCount

\* C6 amended: a cacheImage(url) whose download fails returns null and leaves
\* no entry for url; totalSize and imageCount are as they were when no entry
\* for url existed before the call, and are lowered by the stale entry (not
\* below zero) that the call purged before downloading when one existed.
C6_FailureWritesNoEntry ==
  (last.op = "cacheImage" /\ last.info.failed) =>
    LET e == last.pre.entry
        m0 == CountersOf(last.pre.meta)
        m1 == getCacheMetadata(storage, now)
    IN  /\ last.ret = NullPath
        /\ getCacheKey(last.arg) \notin DOMAIN storage
        /\ IF e.t = "entry"
           THEN /\ m1.totalSize = JsSubClamp(m0.totalSize, e.size)
                /\ m1.imageCount = Max(0, m0.imageCount - 1)
           ELSE /\ m1.totalSize = m0.totalSize
                /\ m1.imageCount = m0.imageCount

\* a failed download for a url whose stale entry the call purged first
C6_FailedAfterPurge ==
  /\ last.op = "cacheImage"
  /\ last.info.failed
  /\ last.pre.entry.t = "entry"
(***************************************************************************)
(* Properties of ImageStorageService, checked under StoreSpec.             *)
(***************************************************************************)
\* how many times the record r occurs in seq
Count(seq, r) == Cardinality({i \in DOMAIN seq : seq[i] = r})

\* a and b hold the same records, each as many times
SameRecords(a, b) ==
  /\ Len(a) = Len(b)
  /\ \A r \in Range(a) \cup Range(b) : Count(a, r) = Count(b, r)

\* C7: after a saveTrainingImages(uris) that succeeded, the training
\* collection holds exactly one record for each uri, with displayOrder its
\* index and its file on disk, and no file of a record that the collection
\* held before the call exists any more.
C7_ReplaceNotAppend ==
  (last.op = "saveTrainingImages" /\ ~last.info.rejected) =>
    LET items == Items(storage, TRAINING_IMAGES_KEY) IN
      /\ Len(items) = Len(last.arg)
      /\ \A i \in DOMAIN items :
           /\ items[i].displayOrder = i - 1
           /\ Exists(files, items[i].localPath)
      /\ \A j \in DOMAIN last.pre.list :
           ~Exists(files, last.pre.list[j].localPath)

\* C8: getTrainingImages and getGeneratedPhotos return exactly the records of
\* the stored list whose file existed at the call; when a record was dropped
\* the ledger then holds exactly the returned records, and when none was
\* dropped the ledger is not written and stays as it was.
C8_ReadReconciles ==
  last.op \in {"getTrainingImages", "getGeneratedPhotos"} =>
    LET key == IF last.op = "getTrainingImages"
               THEN TRAINING_IMAGES_KEY ELSE GENERATED_PHOTOS_KEY
        old == last.pre.list
        valid == {i \in DOMAIN old : old[i].localPath \in last.pre.present}
    IN  /\ Len(last.ret) = Cardinality(valid)
        /\ \A r \in Range(old) \cup Range(last.ret) :
             Count(last.ret, r) = Cardinality({i \in valid : old[i] = r})
        /\ IF Cardinality(valid) < Len(old)
           THEN /\ last.info.wrote
                /\ key \in DOMAIN storage
                /\ SameRecords(storage[key].items, last.ret)
           ELSE /\ ~last.info.wrote
                /\ (key \in DOMAIN storage) = last.pre.stored
                /\ Items(storage, key) = old

\* a read that dropped a record whose file was gone and rewrote the ledger
C8_ReadDroppedARecord ==
  /\ last.op \in {"getTrainingImages", "getGeneratedPhotos"}
  /\ last.info.wrote
  /\ Len(last.ret) < Len(last.pre.list)

C10_DeleteThenRead ==
  last.op = "deleteGeneratedPhoto" =>
    /\ \A r \in Range(getGeneratedPhotos(World(storage, files)).ret) :
         r.id # last.arg
    /\ \A i \in DOMAIN last.pre.list :
         last.pre.list[i].id = last.arg
           => ~Exists(files, last.pre.list[i].localPath)

(***************************************************************************)
(* Properties of the generated photos' statuses and updates, checked under *)
(* PhotoSpec.                                                              *)
(***************************************************************************)
\* C11: when updateGeneratedPhoto updates a record that getGeneratedPhotos
\* showed as completed or failed, the record it returns (and stores under the
\* same id) is not pending or processing.
C11_StatusNeverGoesBack ==
  [][(last'.op = "updateGeneratedPhoto" /\ last'.ret # NoEntry) =>
       (FirstWithId(getGeneratedPhotos(World(storage, files)).ret,
                    last'.arg.id).generationStatus \in {"completed", "failed"}
          => last'.ret.generationStatus \notin {"pending", "processing"})]_vars

\* C12: getGeneratedPhotos returns, and keeps in the ledger, every record of
\* the stored list that is failed or pending and has no file (no localPath).
C12_FileLessRecordKept ==
  last.op = "getGeneratedPhotos" =>
    \A i \in DOMAIN last.pre.list :
      (/\ last.pre.list[i].generationStatus \in {"failed", "pending"}
       /\ last.pre.list[i].localPath = NullPath)
        => /\ last.pre.list[i] \in Range(last.ret)
           /\ last.pre.list[i] \in Range(Items(storage, GENERATED_PHOTOS_KEY))

\* C19 as stated: updateGeneratedPhoto(id, fields) changes no file; when no
\* record of the collection has the id it returns null and leaves the ledger
\* as it was; when one has, it returns that record with the fields merged
\* over it and the other records of the collection are what they were.
C19_UnknownIdChangesNothing ==
  [][last'.op = "updateGeneratedPhoto" =>
       LET old == Items(storage, GENERATED_PHOTOS_KEY)
           new == Items(storage', GENERATED_PHOTOS_KEY)
           id == last'.arg.id
       IN  /\ files' = files
           /\ IF ~HasId(old, id)
              THEN last'.ret = NoEntry /\ storage' = storage
              ELSE /\ last'.ret = MergeFields(FirstWithId(old, id), last'.arg.updates)
                   /\ SameRecords(WithoutId(new, id), WithoutId(old, id))]_vars

\* C19 (amended): updateGeneratedPhoto(id, fields) changes no file and first
\* reconciles as getGeneratedPhotos does.  When no record that the read
\* returns has the id, it returns null and the ledger is changed by that
\* reconciliation only: the collection holds the stored records whose file
\* exists, the other keys are untouched.  When one has, it returns the first
\* such record with the fields merged over it, and the collection is the list
\* the read returned with that record replaced, every other record in place.
C19_UpdateAfterReconciliation ==
  [][last'.op = "updateGeneratedPhoto" =>
       LET read == getGeneratedPhotos(World(storage, files))
           old == Items(storage, GENERATED_PHOTOS_KEY)
           new == Items(storage', GENERATED_PHOTOS_KEY)
           id == last'.arg.id
       IN  /\ files' = files
           /\ \A k \in (DOMAIN storage \cup DOMAIN storage') \ {GENERATED_PHOTOS_KEY} :
                k \in DOMAIN storage /\ k \in DOMAIN storage' /\ storage'[k] = storage[k]
           /\ IF ~HasId(read.ret, id)
              THEN /\ last'.ret = NoEntry
                   /\ new = ValidRecords(files, old)
              ELSE /\ Len(new) = Len(read.ret)
                   /\ \E k \in DOMAIN new :
                        /\ read.ret[k].id = id
                        /\ \A j \in 1..(k - 1) : read.ret[j].id # id
                        /\ new[k] = last'.ret
                        /\ \A f \in DOMAIN new[k] :
                             new[k][f] = IF f \in DOMAIN last'.arg.updates
                                         THEN last'.arg.updates[f] ELSE read.ret[k][f]
                        /\ \A j \in DOMAIN new : j # k => new[j] = read.ret[j]]_vars

\* an update under an id the collection does not hold pruned a record whose
\* file was gone
C19_UnknownIdPruned ==
  /\ last.op = "updateGeneratedPhoto"
  /\ last.ret = NoEntry
  /\ ~HasId(last.pre.list, last.arg.id)
  /\ Len(Items(storage, GENERATED_PHOTOS_KEY)) < Len(last.pre.list)

(***************************************************************************)
(* Properties of the training set, checked under TrainingSpec.             *)
(***************************************************************************)
\* C13: the training collection never holds more than 3 records.
C13_AtMostThree == Len(Items(storage, TRAINING_IMAGES_KEY)) <= 3

\* the argument is the localPath of each record of list, then one new source
IsConcatOf(arg, list) ==
  arg = [i \in DOMAIN list |-> PathUri(list[i].localPath)] \o <<PickerUri>>

\* C14: a saveTrainingImages call that was given the localPath of each of the
\* k < 3 valid records of the collection followed by one new source can
\* ingest every one of its sources when it comes to it (the source is there
\* to be copied), and when it returns normally the collection holds k + 1
\* records, each with its file on disk.
C14_ConcatAddsOne ==
  /\ (/\ call.op = "saveTrainingImages"
      /\ call.pc = "write"
      /\ Len(call.pre.list) < 3
      /\ \A i \in DOMAIN call.pre.list : call.pre.list[i].localPath \in call.pre.present
      /\ IsConcatOf(call.arg, call.pre.list))
       => "ok" \in StoreOutcomes(files, call.arg[Len(call.stored) + 1])
  /\ (/\ last.op = "saveTrainingImages"
      /\ ~last.info.rejected
      /\ Len(last.pre.list) < 3
      /\ \A i \in DOMAIN last.pre.list : last.pre.list[i].localPath \in last.pre.present
      /\ IsConcatOf(last.arg, last.pre.list))
       => /\ Len(Items(storage, TRAINING_IMAGES_KEY)) = Len(last.pre.list) + 1
          /\ \A i \in DOMAIN Items(storage, TRAINING_IMAGES_KEY) :
               Exists(files, Items(storage, TRAINING_IMAGES_KEY)[i].localPath)

(***************************************************************************)
(* Properties of the stats and the teardowns, checked under AccountSpec.   *)
(***************************************************************************)
\* the sum over the records of seq of the size of the record's file
RECURSIVE TotalSize(_, _)
TotalSize(fs, seq) ==
  IF seq = <<>> THEN 0
  ELSE FileSize(fs, seq[Len(seq)].localPath) + TotalSize(fs, SubSeq(seq, 1, Len(seq) - 1))

C17_TeardownLeavesNothing ==
  /\ last.op = "clearAllData" =>
       /\ getTrainingImages(World(storage, files)).ret = <<>>
       /\ getGeneratedPhotos(World(storage, files)).ret = <<>>
       /\ getAIModelName(storage) = NoEntry
       /\ \A p \in DOMAIN files : p.dir # IMAGES_DIRECTORY
  /\ last.op = "clearAIModel" =>
       DOMAIN storage \cap {TRAINING_IMAGES_KEY, GENERATED_PHOTOS_KEY, AI_MODEL_KEY} = {}

\* clearAllData ran over all three collections and a file no record refers to
C17_TeardownSweptAnOrphan ==
  /\ last.op = "clearAllData"
  /\ last.pre.orphans # {}
  /\ last.pre.stored = {TRAINING_IMAGES_KEY, GENERATED_PHOTOS_KEY, AI_MODEL_KEY}

(***************************************************************************)
(* More properties of ImageStorageService, checked under StoreSpec.        *)
(***************************************************************************)
\* C16: no two records of the generated-photo collection have the same id.
C16_IdsAreUnique ==
  \A i, j \in DOMAIN Items(storage, GENERATED_PHOTOS_KEY) :
    i # j => Items(storage, GENERATED_PHOTOS_KEY)[i].id
               # Items(storage, GENERATED_PHOTOS_KEY)[j].id

\* C18: right after getTrainingImages (getGeneratedPhotos) has returned, with
\* no write and no change of the files in between, a second call returns the
\* same records in the same order, does not write the ledger and leaves the
\* ledger and the files as they are.
C18_SecondReadIsANoOp ==
  /\ last.op = "getTrainingImages" =>
       /\ getTrainingImages(World(storage, files)).ret = last.ret
       /\ ~getTrainingImages(World(storage, files)).wrote
       /\ getTrainingImages(World(storage, files)).w = World(storage, files)
  /\ last.op = "getGeneratedPhotos" =>
       /\ getGeneratedPhotos(World(storage, files)).ret = last.ret
       /\ ~getGeneratedPhotos(World(storage, files)).wrote
       /\ getGeneratedPhotos(World(storage, files)).w = World(storage, files)

\* a first read pruned the ledger and still returned a record
C18_FirstReadPruned ==
  /\ last.op = "getGeneratedPhotos"
  /\ last.info.wrote
  /\ Len(last.ret) >= 1

\* seq is in non-increasing createdAt order
MostRecentFirst(seq) ==
  \A i, j \in DOMAIN seq : i < j => seq[i].createdAt >= seq[j].createdAt

\* C22: getGeneratedPhotos returns its records in non-increasing createdAt
\* order; after a saveGeneratedPhoto that succeeded the stored collection is
\* the new record followed, most recent first, by records that the
\* collection held before, among them every one whose file was on disk.
C22_MostRecentFirst ==
  /\ last.op = "getGeneratedPhotos" => MostRecentFirst(last.ret)
  /\ (last.op = "saveGeneratedPhoto" /\ ~last.info.rejected) =>
       LET items == Items(storage, GENERATED_PHOTOS_KEY) IN
         /\ items # <<>>
         /\ items[1] = last.ret
         /\ MostRecentFirst(Tail(items))
         /\ \A r \in Range(Tail(items)) :
              Count(Tail(items), r) <= Count(last.pre.list, r)
         /\ \A r \in Range(last.pre.list) :
              r.localPath \in last.pre.present
                => Count(Tail(items), r) = Count(last.pre.list, r)

\* a save put a newer record in front of an older one
C22_SavedInFrontOfOlder ==
  /\ last.op = "saveGeneratedPhoto" /\ ~last.info.rejected
  /\ Len(Items(storage, GENERATED_PHOTOS_KEY)) = 2
  /\ Items(storage, GENERATED_PHOTOS_KEY)[1].createdAt
       > Items(storage, GENERATED_PHOTOS_KEY)[2].createdAt

\* C23: no two records of the training collection have the same
\* displayOrder, and the records a successful saveTrainingImages returns and
\* stores have displayOrder equal to their index in the argument.
C23_DisplayOrderUnique ==
  /\ \A i, j \in DOMAIN Items(storage, TRAINING_IMAGES_KEY) :
       i # j => Items(storage, TRAINING_IMAGES_KEY)[i].displayOrder
                  # Items(storage, TRAINING_IMAGES_KEY)[j].displayOrder
  /\ (last.op = "saveTrainingImages" /\ ~last.info.rejected) =>
       /\ Len(last.ret) = Len(last.arg)
       /\ Items(storage, TRAINING_IMAGES_KEY) = last.ret
       /\ \A i \in DOMAIN last.ret : last.ret[i].displayOrder = i - 1

\* deleteTrainingImage removed the first of two records and left a gap
C23_DeleteLeftAGap ==
  /\ last.op = "deleteTrainingImage"
  /\ Len(last.pre.list) = 2
  /\ Len(Items(storage, TRAINING_IMAGES_KEY)) = 1
  /\ Items(storage, TRAINING_IMAGES_KEY)[1].displayOrder = 1

\* what the store owns: its three keys and the files of its directory
StoreSide(st, fs) ==
  [ledger |-> [k \in DOMAIN st
                 \cap {TRAINING_IMAGES_KEY, GENERATED_PHOTOS_KEY, AI_MODEL_KEY}
                 |-> st[k]],
   disk |-> [p \in {q \in DOMAIN fs : q.dir = IMAGES_DIRECTORY} |-> fs[p]]]

\* what the cache owns: the keys under its prefix, the metadata among them,
\* and the files of its directory
CacheSide(st, fs) ==
  [ledger |-> [k \in {j \in DOMAIN st : StartsWith(j, CACHE_PREFIX)} |-> st[k]],
   disk |-> [p \in {q \in DOMAIN fs : q.dir = CACHE_DIRECTORY} |-> fs[p]]]

CacheOps == {"cacheImage", "isCached", "removeFromCache", "cleanupCache",
             "clearCache"}

StoreOps == {"saveGeneratedPhoto", "deleteGeneratedPhoto", "setAIModelName",
             "clearAllData"}

C25_ReadAfterRaceHeals ==
  last.op = "getGeneratedPhotos" =>
    /\ \A r \in Range(last.ret) : Exists(files, r.localPath)
    /\ \A r \in Range(Items(storage, GENERATED_PHOTOS_KEY)) :
         Exists(files, r.localPath)
    /\ SameRecords(last.ret, Items(storage, GENERATED_PHOTOS_KEY))

\* the read dropped a record that a race had left without its file: under
\* RaceSpec nothing else removes a file
C25_RaceLeftADanglingRecord ==
  /\ last.op = "getGeneratedPhotos"
  /\ last.info.wrote
  /\ \E r \in Range(last.pre.list) : ~Exists(files, r.localPath)

\* C30: a delete removes the ledger entry of a record before its file: when
\* a file of a record goes, the ledger lists no record with that file.
C30_LedgerEntryGoesFirst ==
  [][\A p \in DOMAIN files \ DOMAIN files' : p \notin Referenced(storage)]_vars

\* C29: when preloadImages has settled, having started from exact counters
\* and without a cleanup, imageCount is the number of cache entries of the
\* ledger and totalSize the sum of their sizes.
C29_PreloadKeepsCountersExact ==
  (last.op = "preloadImages" /\ last.pre.file /\ ~last.info.cleaned) =>
    CountersAreExact(storage)

\* C31: when saveTrainingImages rejects, the training collection is gone
\* and stays empty to getTrainingImages, and the files the call had written
\* are on disk with no record referring to them; such a file stays there,
\* unreferenced and not written again, through every step but clearAllData.
C31_RejectedSaveLeavesOrphans ==
  [][/\ (call.op = "saveTrainingImages" /\ last'.op = "saveTrainingImages"
           /\ last'.info.rejected) =>
          /\ TRAINING_IMAGES_KEY \notin DOMAIN storage'
          /\ getTrainingImages(World(storage', files')).ret = <<>>
          /\ \A r \in Range(call.stored) :
               /\ Exists(files', r.localPath)
               /\ r.localPath \notin Referenced(storage')
     /\ (call = Idle /\ last'.op # "clearAllData") =>
          \A p \in Orphans(storage, files) :
            p \in DOMAIN files' /\ p \notin Referenced(storage')
     /\ (call.op = "saveTrainingImages" /\ call.pc = "write") =>
          \A p \in Orphans(storage, files) :
            ~files[p].partial => NextTrainingRecord.localPath # p]_vars

\* C32: the path a saveGeneratedPhoto writes to is the path of no record of
\* the ledger, so the ingestion writes over the file of no live record.
C32_DestinationIsFresh ==
  [][(call = Idle /\ call'.op = "saveGeneratedPhoto") =>
       call'.rec.localPath \notin Referenced(storage)]_vars

\* C34: a record that saveGeneratedPhoto creates from an argument without a
\* generationStatus has the status pending.
C34_StartsAsPending ==
  (last.op = "saveGeneratedPhoto" /\ ~last.info.rejected
     /\ last.arg.generationStatus = NoStatus) =>
    last.ret.generationStatus = "pending"

\* C33: when two saveGeneratedPhoto calls issued together, for photos of
\* different ids, have both resolved, the collection holds the record of each.
C33_BothInsertsKept ==
  [][(call.op = "race" /\ call.a.kind = "saveGeneratedPhoto" /\ call' = Idle
        /\ call.a.rec.id # call.b.rec.id) =>
       \A rec \in {call.a.rec, call.b.rec} :
         rec \in Range(Items(storage', GENERATED_PHOTOS_KEY))]_vars

\* C35 as stated: deleteTrainingImage(id) removes the record with the id and
\* its file and leaves every other record and file as it was; for an id the
\* collection does not hold it removes no record and no file.
C35_DeletesExactlyOne ==
  [][last'.op = "deleteTrainingImage" =>
       LET old == Items(storage, TRAINING_IMAGES_KEY)
           new == Items(storage', TRAINING_IMAGES_KEY)
       IN  /\ SameRecords(new, WithoutId(old, last'.arg))
           /\ files' = IF HasId(old, last'.arg)
                       THEN DeleteFile(files, FirstWithId(old, last'.arg).localPath)
                       ELSE files]_vars

\* C35 (amended): deleteTrainingImage(id) first reconciles as
\* getTrainingImages does.  The collection it stores holds the records whose
\* file exists, less the one with the id, each as it was, displayOrder
\* included; the only file it deletes is the one of the record with the id,
\* when that record has its file; for an id the collection does not hold it
\* deletes no file; the other keys of the ledger are untouched.
C35_DeleteAfterReconciliation ==
  [][last'.op = "deleteTrainingImage" =>
       LET old == Items(storage, TRAINING_IMAGES_KEY)
           new == Items(storage', TRAINING_IMAGES_KEY)
           valid == ValidRecords(files, old)
       IN  /\ TRAINING_IMAGES_KEY \in DOMAIN storage'
           /\ SameRecords(new, WithoutId(valid, last'.arg))
           /\ files' = IF HasId(valid, last'.arg)
                       THEN DeleteFile(files, FirstWithId(valid, last'.arg).localPath)
                       ELSE files
           /\ ~HasId(old, last'.arg) => files' = files
           /\ \A k \in (DOMAIN storage \cup DOMAIN storage') \ {TRAINING_IMAGES_KEY} :
                k \in DOMAIN storage /\ k \in DOMAIN storage' /\ storage'[k] = storage[k]]_vars

\* a delete removed its record and its file, and dropped with it a record
\* whose file was missing
C35_DeletePrunedAnother ==
  /\ last.op = "deleteTrainingImage"
  /\ Len(last.pre.list) = 2
  /\ HasId(last.pre.list, last.arg)
  /\ FirstWithId(last.pre.list, last.arg).localPath \in last.pre.present
  /\ ~Exists(files, FirstWithId(last.pre.list, last.arg).localPath)
  /\ Items(storage, TRAINING_IMAGES_KEY) = <<>>

\* the sources of the save that c is
SourcesOf(c) ==
  IF c.op = "saveGeneratedPhoto" THEN {c.arg.uri}
  ELSE IF c.op = "saveTrainingImages" THEN Range(c.arg)
  ELSE {}

\* C37: no step of a saveGeneratedPhoto or saveTrainingImages changes or
\* removes the file of a file:// source of the call, and when the call has
\* ingested its sources each of them is on disk at its path.
C37_SourceIsCopied ==
  [][/\ \A u \in SourcesOf(call) \cup SourcesOf(call') :
          (StartsWith(u.text, FILE_SCHEME) /\ Exists(files, u.path)) =>
            Exists(files', u.path) /\ files'[u.path] = files[u.path]
     /\ (call' = Idle /\ last'.op \in {"saveGeneratedPhoto", "saveTrainingImages"}
           /\ ~last'.info.rejected) =>
          \A u \in SourcesOf(call) :
            StartsWith(u.text, FILE_SCHEME) => Exists(files', u.path)]_vars

\* a photo was saved from a file of the device, which is still there beside
\* the copy
C37_CopiedALocalFile ==
  /\ last.op = "saveGeneratedPhoto" /\ ~last.info.rejected
  /\ StartsWith(last.arg.uri.text, FILE_SCHEME)
  /\ Exists(files, last.ret.localPath)
  /\ Exists(files, last.arg.uri.path)
  /\ last.arg.uri.path # last.ret.localPath

\* C38: when clearCache has returned, isCached is false for every url, the
\* ledger holds no cache entry and no metadata, the cache directory holds no
\* file, and getCacheStats reports totalSize 0 and imageCount 0.
C38_ClearedCacheIsEmpty ==
  last.op = "clearCache" =>
    /\ \A url \in Urls : ~isCached(World(storage, files), url, now).ret
    /\ CacheKeys(storage) = {}
    /\ METADATA_KEY \notin DOMAIN storage
    /\ \A p \in DOMAIN files : p.dir # CACHE_DIRECTORY
    /\ getCacheMetadata(storage, now).totalSize = 0
    /\ getCacheMetadata(storage, now).imageCount = 0

\* clearCache ran on a cache with an entry, a file and stored metadata
C38_ClearedAFilledCache ==
  /\ last.op = "clearCache"
  /\ last.pre.entry.t = "some"
  /\ last.pre.file
  /\ last.pre.meta.t = "some"

C20_RemoveThenRemoveAgain ==
  (last.op = "removeFromCache" /\ last.pre.entry.t = "entry") =>
    LET before == CountersOf(last.pre.meta)
        was == IF before.totalSize = JsonNull THEN 0 ELSE before.totalSize
        after == getCacheMetadata(storage, now)
    IN  /\ getCacheKey(last.arg) \notin DOMAIN storage
        /\ ~Exists(files, last.pre.entry.localPath)
        /\ METADATA_KEY \in DOMAIN storage
        /\ after.totalSize = Max(0, was - last.pre.entry.size)
        /\ after.imageCount = Max(0, before.imageCount - 1)
        /\ removeFromCache(World(storage, files), last.arg, now)
             = World(storage, files)

\* a cached url whose file was on disk was removed and the counters lowered
C20_RemovedACachedUrl ==
  /\ last.op = "removeFromCache"
  /\ last.pre.entry.t = "entry"
  /\ last.pre.file
  /\ last.pre.meta.t = "meta"
  /\ last.pre.meta.totalSize >= last.pre.entry.size
  /\ last.pre.meta.imageCount >= 1

\* C26: the listing of a cleanupCache run (the keys it selects by the cache
\* prefix) never holds the key of the CacheMetadata singleton.
C26_MetadataIsNoEntry ==
  (last.op \in {"cacheImage", "cleanupCache"} /\ last.info.cleaned) =>
    METADATA_KEY \notin DOMAIN last.info.before

\* C27: when a cacheImage call that ran the automatic cleanupCache is followed
\* by a cacheImage call of a url with no entry, the second call runs
\* cleanupCache again only if the sizes of the entries, the new one included,
\* sum to more than MAX_CACHE_SIZE.
C27_NoImmediateRetrigger ==
  [][(/\ last.op = "cacheImage" /\ last.info.cleaned
      /\ last'.op = "cacheImage" /\ last'.pre.entry = NoEntry
      /\ last'.info.cleaned)
       => SumOfSizes(last'.info.before, EntryKeys(last'.info.before))
            > MAX_CACHE_SIZE]_vars

\* a url with no entry was cached, without cleanup, over the metadata that a
\* cleanupCache run had left
C27_CachedAfterCleanup ==
  /\ last.op = "cacheImage"
  /\ last.info.downloads = 1 /\ ~last.info.failed /\ ~last.info.cleaned
  /\ last.pre.entry = NoEntry
  /\ last.pre.meta.t = "meta"
  /\ last.pre.meta.totalSize = JsonNull

\* C28: when cacheImage(url) returns a path, the file at that path exists
\* and the ledger holds an entry for url.
C28_ReturnedPathIsCached ==
  (last.op = "cacheImage" /\ last.ret # NullPath) =>
    /\ Exists(files, last.ret)
    /\ getCacheKey(last.arg) \in DOMAIN storage

(***************************************************************************)
(* Properties of getImage, checked under ImageSpec.                        *)
(***************************************************************************)
\* C21: getImage(url) returns url and changes neither ledger nor files when
\* url starts with file:// or data:; for any other url it returns the url
\* itself or the localPath of the ledger's entry for url.
C21_GetImageFallsBack ==
  [][last'.op = "getImage" =>
       IF last'.arg.text \notin Urls
       THEN last'.ret = last'.arg /\ storage' = storage /\ files' = files
       ELSE \/ last'.ret = last'.arg
            \/ /\ getCacheKey(last'.arg.text) \in DOMAIN storage'
               /\ last'.ret = PathUri(storage'[getCacheKey(last'.arg.text)].localPath)]_vars
====
